---- MODULE Spec2Model ----
(***************************************************************************)
(* Model of the anomaly detection core of the crop monitoring platform:    *)
(*   ml_module/detector.py       AnomalyDetector (load, train, predict)    *)
(*   ml_module/preprocessing.py  validate_sensor_reading                   *)
(*   ml_module/config.py         THRESHOLDS                                *)
(*   crop_app/serializers.py     SensorReadingSerializer (ingestion)       *)
(*   crop_app/views.py, models.py  the record store behind the API: the    *)
(*                               readings, plots, farms, anomaly events    *)
(*   simulator/anomaly_scenarios.py  AnomalyScenario and its three         *)
(*                               variants, AnomalyManager                  *)
(*                                                                         *)
(* Sensor values are integers in sensor units.  Anomaly scores and         *)
(* confidences are fixed-point numbers in hundredths (1.0 is 100).         *)
(* One AnomalyDetector object is shared by the threads of the process;     *)
(* train and predict are split at the statements that read or write the    *)
(* attributes self.model and self.scaler.                                  *)
(*                                                                         *)
(* In the scenario injector the clock counts minutes since the manager     *)
(* was constructed, start_hour is in hundredths of an hour, sensor values  *)
(* and drops are in hundredths of a sensor unit, and progress and the      *)
(* exponential are fixed-point numbers in ten-thousandths.                 *)
(***************************************************************************)
EXTENDS Integers, FiniteSets, Sequences, TLC

\* ------------------------------------------------------------------ bounds
\* largest number of readings the record store holds in the model
MaxStore == 51
\* train calls that pass the sample check in one behaviour of the process
\* (each creates one scaler and one model)
MaxTrainCalls == 1
\* the same when two threads train on the detector
MaxConcTrainCalls == 2
\* largest magnitude of a raw anomaly score, in hundredths
MaxScore == 120
\* how many times the clock of the scenario injector advances
MaxClockSteps == 8
MaxEvents == 2
\* longest list sent to bulk_create
MaxBulk == 2
\* readings of the group when they are saved one second apart
MaxRows == 13
\* the same when time passes between the requests
MaxTimedRows == 3
\* latest instant of the server clock to which time passes, in seconds
MaxNow == 100800
\* rows written in one behaviour in which plots are deleted and created
MaxWrites == 3
\* largest id a plot gets
MaxPlotId == 2

\* --------------------------------------------------------------- constants
\* detector.py:70  "if sensor_readings.count() < 50"
MinSamples == 50
\* serializers.py:50  "if value < 0 or value > 200"
SerializerMin == 0
SerializerMax == 200
\* fixed-point image of 1.0
One == 100
\* detector.py:229, 245: confidence 0.9 of the rule-based verdicts
RuleConfidence == 90
\* readings in the record store when the process starts: one short of the
\* training minimum
StoreInit == MinSamples - 1

None == "None"
Unfitted == -1
NoneObj == -2

SensorTypes == {"moisture", "temperature", "humidity"}
\* "ph" stands for any sensor type the tables do not know
AllTypes == SensorTypes \cup {"ph"}
\* values on both sides of, and equal to, every bound and critical threshold
ValueSet == {-21, -20, 0, 5, 10, 20, 30, 35, 38, 50, 60, 61, 85, 86, 100, 101, 150}
\* the readings the predicting thread of the process model submits
CoreReadings ==
    {[sensor_type |-> "moisture", value |-> 20],
     [sensor_type |-> "moisture", value |-> 150],
     [sensor_type |-> "ph", value |-> 50]}
\* values sent to the ingestion endpoint: inside the physical bounds, outside
\* them but accepted by the serializer, and rejected by the serializer
IngestValues == {50, 150, SerializerMax, SerializerMax + 1}
\* plot ids of the requests: 0 is the id of no plot, 1 the id of the plot
\* that exists at the start, the others the ids of the plots created later
PlotIds == 0 .. MaxPlotId
\* the items of the lists sent to bulk_create: a reading inside the physical
\* bounds, one outside them that the serializer accepts, one the serializer
\* rejects, and one for a plot that does not exist
BulkItems ==
    {[sensor_type |-> "moisture", value |-> 50, plot_id |-> 1],
     [sensor_type |-> "moisture", value |-> 150, plot_id |-> 1],
     [sensor_type |-> "moisture", value |-> SerializerMax + 1, plot_id |-> 1],
     [sensor_type |-> "moisture", value |-> 50, plot_id |-> 2]}
Readings == [sensor_type : AllTypes, value : ValueSet]
ScoreSet == (0 - MaxScore) .. MaxScore
\* scores the ensemble returns in the detector model
PredictScores == {0 - MaxScore, -50, 50}
Labels == {-1, 1}

Trainers == {"t1", "t2"}
Predictors == {"p1"}
ObjIds == 0 .. (MaxTrainCalls + MaxConcTrainCalls)
FileStates == {"missing", "ok", "corrupt"}

\* ------------------------------------------------------- preprocessing.py
bounds ==
    [moisture |-> <<0, 100>>, temperature |-> <<-20, 60>>, humidity |-> <<0, 100>>]

\* validate_sensor_reading without the test against the upper bound
validate_sensor_reading_NoUpperBound(reading) ==
    IF reading.sensor_type \notin DOMAIN bounds
    THEN [is_valid |-> FALSE, error |-> "unknown_sensor_type"]
    ELSE IF reading.value < bounds[reading.sensor_type][1]
         THEN [is_valid |-> FALSE, error |-> "out_of_bounds"]
         ELSE [is_valid |-> TRUE, error |-> None]

validate_sensor_reading(reading) ==
    IF reading.sensor_type \notin DOMAIN bounds
    THEN [is_valid |-> FALSE, error |-> "unknown_sensor_type"]
    ELSE LET min_val == bounds[reading.sensor_type][1]
             max_val == bounds[reading.sensor_type][2]
         IN  IF reading.value < min_val \/ reading.value > max_val
             THEN [is_valid |-> FALSE, error |-> "out_of_bounds"]
             ELSE [is_valid |-> TRUE, error |-> None]

\* ---------------------------------------------------------------- config.py
THRESHOLDS ==
    [moisture    |-> [critical_low |-> 35, critical_high |-> 85, normal_min |-> 45,
                      normal_max |-> 75, sudden_drop |-> 10, sudden_spike |-> 15],
     temperature |-> [critical_low |-> 10, critical_high |-> 35, normal_min |-> 18,
                      normal_max |-> 28, sudden_drop |-> 5, sudden_spike |-> 8],
     humidity    |-> [critical_low |-> 30, critical_high |-> 85, normal_min |-> 45,
                      normal_max |-> 75, sudden_drop |-> 15, sudden_spike |-> 20]]

\* -------------------------------------------------------------- detector.py
\* The dict predict returns.  has_score tells whether the key anomaly_score
\* is present; anomaly_type and severity hold None when absent.
Verdict(is_anomaly, confidence, has_score, score, anomaly_type, severity, explanation) ==
    [is_anomaly |-> is_anomaly, confidence |-> confidence, has_score |-> has_score,
     anomaly_score |-> score, anomaly_type |-> anomaly_type, severity |-> severity,
     explanation |-> explanation]

NoVerdict == Verdict(FALSE, 0, FALSE, 0, None, None, "no_verdict")

\* detector.py:145-152, the verdict for a reading that fails validation
InvalidReadingVerdict(error) ==
    Verdict(TRUE, One, FALSE, 0, "sensor_malfunction", "high", error)

_rule_based_detection(reading) ==
    LET sensor_type == reading.sensor_type
        value == reading.value
    IN  IF sensor_type \notin DOMAIN THRESHOLDS
        THEN Verdict(FALSE, 0, FALSE, 0, None, None, "unknown_sensor_type")
        ELSE LET thresholds == THRESHOLDS[sensor_type]
             IN  IF value < thresholds.critical_low
                 THEN Verdict(TRUE, RuleConfidence, FALSE, 0,
                              IF sensor_type = "moisture" THEN "irrigation_failure"
                              ELSE IF sensor_type = "temperature" THEN "cold_stress"
                              ELSE "dry_stress",
                              "high", "critically_low")
                 ELSE IF value > thresholds.critical_high
                 THEN Verdict(TRUE, RuleConfidence, FALSE, 0,
                              IF sensor_type = "temperature" THEN "heat_stress"
                              ELSE IF sensor_type = "humidity" THEN "excess_moisture"
                              ELSE "sensor_malfunction",
                              "high", "critically_high")
                 ELSE Verdict(FALSE, 0, FALSE, 0, None, None, "normal_rule_based")

\* _classify_anomaly with the thresholds themselves counted as breaches
_classify_anomaly_NonStrict(reading) ==
    LET sensor_type == reading.sensor_type
        value == reading.value
        known == sensor_type \in DOMAIN THRESHOLDS
        critical_low == IF known THEN THRESHOLDS[sensor_type].critical_low ELSE 0
        critical_high == IF known THEN THRESHOLDS[sensor_type].critical_high ELSE 100
    IN  IF value <= critical_low
        THEN IF sensor_type = "moisture" THEN <<"irrigation_failure", "high", "critically_low">>
             ELSE IF sensor_type = "temperature" THEN <<"cold_stress", "medium", "critically_low">>
             ELSE <<"dry_stress", "medium", "critically_low">>
        ELSE IF value >= critical_high
        THEN IF sensor_type = "temperature" THEN <<"heat_stress", "high", "critically_high">>
             ELSE IF sensor_type = "humidity" THEN <<"excess_moisture", "medium", "critically_high">>
             ELSE <<"sensor_malfunction", "low", "abnormally_high">>
        ELSE <<"sensor_anomaly", "low", "unusual">>

\* returns <<anomaly_type, severity, explanation>>
_classify_anomaly(reading) ==
    LET sensor_type == reading.sensor_type
        value == reading.value
        known == sensor_type \in DOMAIN THRESHOLDS
        critical_low == IF known THEN THRESHOLDS[sensor_type].critical_low ELSE 0
        critical_high == IF known THEN THRESHOLDS[sensor_type].critical_high ELSE 100
    IN  IF value < critical_low
        THEN IF sensor_type = "moisture" THEN <<"irrigation_failure", "high", "critically_low">>
             ELSE IF sensor_type = "temperature" THEN <<"cold_stress", "medium", "critically_low">>
             ELSE <<"dry_stress", "medium", "critically_low">>
        ELSE IF value > critical_high
        THEN IF sensor_type = "temperature" THEN <<"heat_stress", "high", "critically_high">>
             ELSE IF sensor_type = "humidity" THEN <<"excess_moisture", "medium", "critically_high">>
             ELSE <<"sensor_malfunction", "low", "abnormally_high">>
        ELSE <<"sensor_anomaly", "low", "unusual">>

\* numpy.clip without the upper limit
Clip_NoUpper(a, a_min, a_max) ==
    IF a < a_min THEN a_min ELSE a

\* numpy.clip(a, a_min, a_max) = minimum(a_max, maximum(a, a_min))
Clip(a, a_min, a_max) ==
    LET lower == IF a < a_min THEN a_min ELSE a
    IN  IF lower > a_max THEN a_max ELSE lower

\* _score_to_confidence without the sign flip
_score_to_confidence_NoFlip(score) == Clip(score, 0, One)

_score_to_confidence(score) ==
    LET normalized == 0 - score
    IN  Clip(normalized, 0, One)


\* "self.model is None"
IsNone(obj) == obj = NoneObj

\* AnomalyDetector._load_model: the (model, scaler) pair after construction,
\* from the state of the two files.  Any exception resets both to None.
_load_model(model_file, scaler_file) ==
    IF model_file = "corrupt" \/ scaler_file = "corrupt"
    THEN <<NoneObj, NoneObj>>
    ELSE <<IF model_file = "ok" THEN 0 ELSE NoneObj,
           IF scaler_file = "ok" THEN 0 ELSE NoneObj>>

\* an except clause that logs and raises again
PredictExcept_Reraise(reading) ==
    [raised |-> TRUE, verdict |-> NoVerdict]

\* lines 195-197: the handler of any exception raised in the try block
PredictExcept(reading) ==
    [raised |-> FALSE, verdict |-> _rule_based_detection(reading)]

\* a verdict that is also anomalous when a critical threshold is breached
PredictResult_ThresholdOverride(reading, prediction, score) ==
    LET is_anomaly == prediction = -1 \/ _rule_based_detection(reading).is_anomaly
        confidence == _score_to_confidence(score)
        cls == IF is_anomaly THEN _classify_anomaly(reading)
               ELSE <<None, None, "within_normal_range">>
    IN  Verdict(is_anomaly, confidence, TRUE, score, cls[1], cls[2], cls[3])

\* lines 164-193: the verdict built from the ensemble's label and score
PredictResult(reading, prediction, score) ==
    LET is_anomaly == prediction = -1
        confidence == _score_to_confidence(score)
        cls == IF is_anomaly THEN _classify_anomaly(reading)
               ELSE <<None, None, "within_normal_range">>
    IN  Verdict(is_anomaly, confidence, TRUE, score, cls[1], cls[2], cls[3])

\* line 70: sensor_readings.count() < 50
InsufficientData(count) == count < MinSamples

\* serializers.py: validate_sensor_type and validate_value
validate_sensor_type(sensor_type) == sensor_type \in SensorTypes
validate_value(value) == ~(value < SerializerMin \/ value > SerializerMax)

\* ------------------------------------------- simulator/anomaly_scenarios.py
\* simulator/config.py:10, the period of the simulator's clock in minutes
SIMULATION_INTERVAL_MINUTES == 30
\* fixed-point image of 1.0 for progress and for the exponential
Scale == 10000
\* anomaly_scenarios.py:106, the floor 30.0 in hundredths
MoistureFloor == 3000

\* the built-in min and max of two numbers
Min2(a, b) == IF a < b THEN a ELSE b
Max2(a, b) == IF a > b THEN a ELSE b

\* sum of the series 1 + x + x^2/2! + ... from the n-th term on, x >= 0
RECURSIVE ExpSeries(_, _, _)
ExpSeries(x, n, term) ==
    IF term = 0 THEN 0
    ELSE term + ExpSeries(x, n + 1, (term * x) \div (Scale * (n + 1)))

\* numpy.exp(x) for x <= 0, as 1 / e^(-x)
NpExp(x) == (Scale * Scale) \div ExpSeries(0 - x, 0, Scale)

\* the constructors: a scenario object with the fields of the three variants
Scenario(kind, name, start_hour, duration_minutes) ==
    [kind |-> kind, name |-> name, start_hour |-> start_hour, duration_minutes |-> duration_minutes,
     is_active |-> FALSE, start_time |-> NoneObj,
     target_drop |-> 0, spike_probability |-> 0, affected_sensor |-> "none",
     drift_amount |-> 0, drift_direction |-> "none"]

SuddenDropScenario(start_hour, duration_minutes, target_drop) ==
    [Scenario("sudden_drop", "Sudden Drop (Irrigation Failure)",
              start_hour, duration_minutes) EXCEPT
        !.target_drop = target_drop]

SpikeScenario(start_hour, duration_minutes, spike_probability, affected_sensor) ==
    [Scenario("spike", "Spikes (Sensor Malfunction)",
              start_hour, duration_minutes) EXCEPT
        !.spike_probability = spike_probability, !.affected_sensor = affected_sensor]

DriftScenario(start_hour, duration_minutes, drift_amount, drift_direction, affected_sensor) ==
    [Scenario("drift", "Drift (Calibration Drift - " \o affected_sensor \o ")",
              start_hour, duration_minutes) EXCEPT
        !.drift_amount = drift_amount, !.drift_direction = drift_direction,
        !.affected_sensor = affected_sensor]

\* should_activate with > in place of >=
should_activate_Strict(self, hours_since_start) ==
    hours_since_start > self.start_hour /\ ~self.is_active

should_activate(self, hours_since_start) ==
    hours_since_start >= self.start_hour /\ ~self.is_active

\* is_expired with > in place of >=
is_expired_Strict(self, now) ==
    IF ~self.is_active \/ self.start_time = NoneObj
    THEN FALSE
    ELSE LET elapsed == now - self.start_time
         IN  elapsed > self.duration_minutes

is_expired(self, now) ==
    IF ~self.is_active \/ self.start_time = NoneObj
    THEN FALSE
    ELSE LET elapsed == now - self.start_time
         IN  elapsed >= self.duration_minutes

activate(self, now) == [self EXCEPT !.is_active = TRUE, !.start_time = now]

deactivate(self) == [self EXCEPT !.is_active = FALSE]

\* min(1.0, elapsed_minutes / self.duration_minutes)
Progress(elapsed_minutes, duration_minutes) ==
    Min2(Scale, (elapsed_minutes * Scale) \div duration_minutes)

\* a drop that grows linearly with progress
DropAmount_Linear(target_drop, progress) ==
    (target_drop * progress) \div Scale

\* line 103: self.target_drop * (1 - np.exp(-3 * progress))
DropAmount(target_drop, progress) ==
    (target_drop * (Scale - NpExp(0 - 3 * progress))) \div Scale

\* SuddenDropScenario.modify_reading without the floor
SuddenDrop_modify_reading_NoFloor(self, now, sensor_type, normal_value) ==
    IF ~self.is_active THEN normal_value
    ELSE IF sensor_type = "moisture"
    THEN LET elapsed_minutes == now - self.start_time
             progress == Progress(elapsed_minutes, self.duration_minutes)
             drop == DropAmount(self.target_drop, progress)
         IN  normal_value - drop
    ELSE normal_value

SuddenDrop_modify_reading(self, now, sensor_type, normal_value) ==
    IF ~self.is_active THEN normal_value
    ELSE IF sensor_type = "moisture"
    THEN LET elapsed_minutes == now - self.start_time
             progress == Progress(elapsed_minutes, self.duration_minutes)
             drop == DropAmount(self.target_drop, progress)
         IN  Max2(MoistureFloor, normal_value - drop)
    ELSE normal_value

\* lines 150-165: the <<low, high>> bounds of the two ranges of each sensor type
SpikeRanges ==
    [moisture    |-> << <<1000, 2500>>, <<8500, 9500>> >>,
     temperature |-> << <<0, 800>>, <<3800, 4500>> >>,
     humidity    |-> << <<1000, 2000>>, <<9000, 9800>> >>]

\* np.random.uniform(low, high) for the draw f in [0, 1), f in hundredths
uniform(low, high, f) == low + ((high - low) * f) \div 100

\* the values the random generator returns during one call: random() in
\* hundredths, the two uniform draws as fractions in hundredths, and the
\* index np.random.choice picks.  A random() of 0.99 is below no
\* spike_probability, and then nothing else is drawn.
Draws ==
    {[random |-> 99, low |-> 0, high |-> 0, choice |-> 1]}
    \cup [random : {0}, low : {0, 99}, high : {0, 99}, choice : {1, 2}]

\* SpikeScenario.modify_reading without the test of affected_sensor
Spike_modify_reading_AnySensor(self, sensor_type, normal_value, d) ==
    IF ~self.is_active THEN normal_value
    ELSE IF d.random < self.spike_probability /\ sensor_type \in DOMAIN SpikeRanges
    THEN LET r == SpikeRanges[sensor_type]
         IN  <<uniform(r[1][1], r[1][2], d.low), uniform(r[2][1], r[2][2], d.high)>>[d.choice]
    ELSE normal_value

Spike_modify_reading(self, sensor_type, normal_value, d) ==
    IF ~self.is_active THEN normal_value
    ELSE IF self.affected_sensor # "all" /\ sensor_type # self.affected_sensor
    THEN normal_value
    ELSE IF d.random < self.spike_probability /\ sensor_type \in DOMAIN SpikeRanges
    THEN LET r == SpikeRanges[sensor_type]
         IN  <<uniform(r[1][1], r[1][2], d.low), uniform(r[2][1], r[2][2], d.high)>>[d.choice]
    ELSE normal_value

\* DriftScenario.modify_reading that drifts upward whatever the direction
Drift_modify_reading_AlwaysUp(self, now, sensor_type, normal_value) ==
    IF ~self.is_active THEN normal_value
    ELSE IF sensor_type # self.affected_sensor THEN normal_value
    ELSE LET elapsed_minutes == now - self.start_time
             progress == Progress(elapsed_minutes, self.duration_minutes)
             drift == (self.drift_amount * progress) \div Scale
         IN  normal_value + drift

\* DriftScenario.modify_reading without the test of is_active
Drift_modify_reading_NoActiveTest(self, now, sensor_type, normal_value) ==
    IF sensor_type # self.affected_sensor THEN normal_value
    ELSE LET elapsed_minutes == now - self.start_time
             progress == Progress(elapsed_minutes, self.duration_minutes)
             drift == (self.drift_amount * progress) \div Scale
         IN  IF self.drift_direction = "down"
             THEN normal_value - drift
             ELSE normal_value + drift

Drift_modify_reading(self, now, sensor_type, normal_value) ==
    IF ~self.is_active THEN normal_value
    ELSE IF sensor_type # self.affected_sensor THEN normal_value
    ELSE LET elapsed_minutes == now - self.start_time
             progress == Progress(elapsed_minutes, self.duration_minutes)
             drift == (self.drift_amount * progress) \div Scale
         IN  IF self.drift_direction = "down"
             THEN normal_value - drift
             ELSE normal_value + drift

\* scenario.modify_reading(sensor_type, normal_value), dispatched on the class
modify_reading(self, now, sensor_type, normal_value, d) ==
    CASE self.kind = "sudden_drop" ->
             SuddenDrop_modify_reading(self, now, sensor_type, normal_value)
      [] self.kind = "spike" ->
             Spike_modify_reading(self, sensor_type, normal_value, d)
      [] self.kind = "drift" ->
             Drift_modify_reading(self, now, sensor_type, normal_value)

\* AnomalyManager.modify_reading with the scenarios applied last to first
RECURSIVE AnomalyManager_modify_reading_Reversed(_, _, _, _, _, _)
AnomalyManager_modify_reading_Reversed(scs, i, now, sensor_type, modified_value, d) ==
    IF i > Len(scs) THEN modified_value
    ELSE LET rest == AnomalyManager_modify_reading_Reversed(scs, i + 1, now, sensor_type,
                         modified_value, d)
         IN  IF scs[i].is_active
             THEN modify_reading(scs[i], now, sensor_type, rest, d)
             ELSE rest

\* AnomalyManager.modify_reading: the loop over self.scenarios from index i on
RECURSIVE AnomalyManager_modify_reading(_, _, _, _, _, _)
AnomalyManager_modify_reading(scs, i, now, sensor_type, modified_value, d) ==
    IF i > Len(scs) THEN modified_value
    ELSE AnomalyManager_modify_reading(scs, i + 1, now, sensor_type,
             IF scs[i].is_active
             THEN modify_reading(scs[i], now, sensor_type, modified_value, d)
             ELSE modified_value,
             d)

\* [s.name for s in self.scenarios if s.is_active]
get_active_scenarios(scs) ==
    LET active == SelectSeq(scs, LAMBDA s : s.is_active)
    IN  [k \in 1 .. Len(active) |-> active[k].name]

\* any(s.is_active for s in self.scenarios)
has_active_anomalies(scs) == \E i \in DOMAIN scs : scs[i].is_active

\* get_hours_since_start, in hundredths of an hour
get_hours_since_start(now) == (now * 100) \div 60

\* the body of the loop of AnomalyManager.update for one scenario
UpdateScenario(self, now) ==
    LET checked == IF should_activate(self, get_hours_since_start(now))
                   THEN activate(self, now) ELSE self
    IN  IF is_expired(checked, now) THEN deactivate(checked) ELSE checked

\* AnomalyManager() with no scenario registered
AnomalyManager == <<>>

add_scenario(manager, scenario) == Append(manager, scenario)

\* the predefined managers, lines 283-390
create_irrigation_failure_test ==
    add_scenario(AnomalyManager, SuddenDropScenario(100, 120, 1500))

create_sensor_malfunction_test ==
    add_scenario(AnomalyManager, SpikeScenario(200, 90, 40, "all"))

create_calibration_drift_test ==
    add_scenario(AnomalyManager, DriftScenario(300, 240, 1200, "up", "temperature"))

create_full_test_suite ==
    add_scenario(
        add_scenario(
            add_scenario(AnomalyManager, SuddenDropScenario(100, 120, 1500)),
            SpikeScenario(300, 90, 30, "temperature")),
        DriftScenario(500, 240, 1500, "up", "humidity"))

create_quick_test ==
    add_scenario(
        add_scenario(
            add_scenario(AnomalyManager, SuddenDropScenario(25, 30, 1200)),
            SpikeScenario(100, 30, 50, "all")),
        DriftScenario(150, 30, 1000, "up", "moisture"))

\* a manager with one DriftScenario of direction 'down' (no predefined
\* manager has one)
DownwardDriftManager ==
    add_scenario(AnomalyManager, DriftScenario(100, 60, 1000, "down", "humidity"))

Managers ==
    {AnomalyManager, create_irrigation_failure_test, create_sensor_malfunction_test,
     create_calibration_drift_test, create_full_test_suite, create_quick_test,
     DownwardDriftManager}

\* baseline values handed to modify_reading, in hundredths
NormalValues == {2000, 4000, 6000}

\* ------------------------------------------------------------------- state
\* --------------------------------------------------------------- features
\* SensorDataPreprocessor on the readings of one (plot, sensor type) group,
\* the unit of the groupby of _engineer_features and of the query of
\* prepare_single_reading.  A row is [timestamp, value]; timestamps count
\* seconds from a Monday 00:00, means are in hundredths and standard
\* deviations in tenths of a sensor unit.
NaN == -1000000
RollingWindow == 12
DiffPeriods == 2
\* the sensor type of the group
GroupType == "moisture"
FeatureValues == {40, 60}
\* the time that passes between two requests: three hours, 25 hours
Delays == {3 * 3600, 25 * 3600}

RECURSIVE SumSeq(_)
SumSeq(s) == IF s = <<>> THEN 0 ELSE Head(s) + SumSeq(Tail(s))

\* the integer square root, by bisection
RECURSIVE ISqrtIn(_, _, _)
ISqrtIn(n, lo, hi) ==
    IF lo = hi THEN lo
    ELSE LET mid == (lo + hi + 1) \div 2
         IN  IF mid * mid <= n THEN ISqrtIn(n, mid, hi) ELSE ISqrtIn(n, lo, mid - 1)

ISqrt(n) == ISqrtIn(n, 0, 46340)

Values(rows) == [i \in DOMAIN rows |-> rows[i].value]

\* rolling(window=12, min_periods=1): the row and the up to 11 before it
Rolling(values, i) == SubSeq(values, Max2(1, i - RollingWindow + 1), i)

\* .rolling(...).mean()
rolling_mean(values, i) ==
    LET w == Rolling(values, i)
    IN  (SumSeq(w) * 100) \div Len(w)

\* .rolling(...).std(): the sample standard deviation, NaN for one sample
rolling_std(values, i) ==
    LET w == Rolling(values, i)
        n == Len(w)
        s == SumSeq(w)
        sq == SumSeq([k \in DOMAIN w |-> w[k] * w[k]])
    IN  IF n < 2 THEN NaN
        ELSE ISqrt(((n * sq - s * s) * 100) \div (n * (n - 1)))

\* .diff(periods=2): NaN for the first two rows
diff(values, i) ==
    IF i <= DiffPeriods THEN NaN ELSE values[i] - values[i - DiffPeriods]

\* lines 149-151: the resampled series is indexed by timestamp while the
\* frame is indexed by row number, so the .loc assignment, which aligns on
\* labels, finds no label in common and stores NaN in every row
daily_mean(rows, i) == NaN

\* NaN propagates through the subtraction of line 154
Minus(a, b) == IF a = NaN \/ b = NaN THEN NaN ELSE a - b

\* Series.fillna
fillna(x, v) == IF x = NaN THEN v ELSE x

\* the .loc assignment reindexes the resampled series, which pandas refuses
\* when its index holds the same timestamp twice
HasDuplicateTimestamps(rows) ==
    \E i, j \in DOMAIN rows : i # j /\ rows[i].timestamp = rows[j].timestamp

\* _engineer_features without the fillna calls of lines 159-161
_engineer_features_NoFill(rows) ==
    LET values == Values(rows)
    IN  [i \in DOMAIN rows |->
            [value |-> rows[i].value,
             hour_of_day |-> (rows[i].timestamp \div 3600) % 24,
             day_of_week |-> (rows[i].timestamp \div (24 * 3600)) % 7,
             rolling_mean_6h |-> rolling_mean(values, i),
             rolling_std_6h |-> rolling_std(values, i),
             value_change_1h |-> diff(values, i),
             deviation_from_daily_mean |-> Minus(rows[i].value, daily_mean(rows, i))]]

\* _engineer_features, lines 115-163, on a frame sorted by timestamp
_engineer_features(rows) ==
    LET df == _engineer_features_NoFill(rows)
    IN  [i \in DOMAIN rows |->
            [df[i] EXCEPT !.rolling_std_6h = fillna(@, 0),
                          !.value_change_1h = fillna(@, 0),
                          !.deviation_from_daily_mean = fillna(@, 0)]]

\* np.nan_to_num(X, nan=0.0) on one row of the feature matrix
nan_to_num(x) == [f \in DOMAIN x |-> fillna(x[f], 0)]

\* a feature matrix in which the missing statistics are left as they are
FeatureMatrix_Raw(rows) == _engineer_features_NoFill(rows)

\* df[self.features].values of the engineered frame, then nan_to_num:
\* lines 43-51 and 89-95
FeatureMatrix(rows) ==
    LET df == _engineer_features(rows)
    IN  [i \in DOMAIN rows |-> nan_to_num(df[i])]

\* prepare_training_data, lines 26-54: the feature matrix X of the frame
prepare_training_data(rows) == FeatureMatrix(rows)

\* the query of lines 68-75: the rows of the group whose timestamp is not
\* before timezone.now() - timedelta(hours=24)
RecentReadings(rows, at) ==
    SelectSeq(rows, LAMBDA r : r.timestamp >= at - 24 * 3600)

\* lines 78-87: the frame of prepare_single_reading: the recent rows of the
\* store followed by the reading, whether or not the store holds it already
SingleFrame(rows, reading, at) == Append(RecentReadings(rows, at), reading)

\* prepare_single_reading, lines 56-98: the last row of the feature matrix
\* of that frame
prepare_single_reading(rows, reading, at) ==
    LET df == SingleFrame(rows, reading, at)
    IN  FeatureMatrix(df)[Len(df)]

VARIABLES
    model,          \* self.model: NoneObj or the id of an IsolationForest object
    scaler,         \* self.scaler: NoneObj or the id of a StandardScaler object
    scalerFit,      \* scaler object -> Unfitted or the train call whose X it was fitted on
    modelFit,       \* model object -> Unfitted or the train call whose X_scaled it was fitted on
    nextId,         \* id of the objects the next train call creates
    modelFile,      \* MODEL_FILE on disk
    scalerFile,     \* SCALER_FILE on disk
    storeN,         \* number of SensorReading rows in the record store
    storeOob,       \* how many of them lie outside the physical bounds
    farmPlot,       \* the farm and the plot the requests write to: whether they
                    \* exist, the id of the plot created last and how many of
                    \* the rows belong to the plot
    now,            \* the server clock, in seconds from a Monday 00:00
    bulk,           \* the items the running bulk_create request has still to write
    pcT,            \* position of each thread calling train
    trainLoc,       \* its local variables
    pcP,            \* position of each thread calling predict
    predLoc,        \* its local variables
    fedByPredict,   \* predict handed the features of an out-of-bounds reading to the scaler
    fedByTrain,     \* train handed the features of an out-of-bounds reading to the scaler
    trainSucceeded, \* some train call has returned normally
    initFiles,      \* <<model file, scaler file>> as the constructor found them
    confIn,         \* the two scores given to _score_to_confidence
    confOut,        \* the two confidences it returned
    clock,          \* datetime.now() - manager.simulation_start, in minutes
    scenarios,      \* AnomalyManager.scenarios
    lastUpdate,     \* the last update(): its time and the scenarios it found
    expired,        \* indices of the scenarios some update() has deactivated
    lastModify,     \* the modify_reading call made since the clock last advanced
                    \* or update() last ran: receiver, arguments, result
    lastQuery,      \* the same for get_active_scenarios and has_active_anomalies
    signal,         \* the running or last call of detect_anomaly_on_save
    anomalyEvents,  \* number of AnomalyEvent rows, all of the plot
    rows,           \* the SensorReading rows of the plot with sensor type GroupType
    batch,          \* the last call of prepare_training_data on them
    single          \* the last call of prepare_single_reading

detectorVars == <<model, scaler, scalerFit, modelFit, nextId, modelFile, scalerFile, initFiles>>
storeVars == <<storeN, storeOob, farmPlot, now, bulk>>
trainVars == <<pcT, trainLoc, fedByTrain, trainSucceeded>>
predictVars == <<pcP, predLoc, fedByPredict>>
confVars == <<confIn, confOut>>
injectorVars == <<clock, scenarios, lastUpdate, expired, lastModify, lastQuery>>
signalVars == <<signal, anomalyEvents>>
featureVars == <<rows, batch, single>>
vars == <<model, scaler, scalerFit, modelFit, nextId, modelFile, scalerFile,
          storeN, storeOob, farmPlot, now, bulk, pcT, trainLoc, pcP, predLoc,
          fedByPredict, fedByTrain, trainSucceeded, initFiles, confIn, confOut,
          clock, scenarios, lastUpdate, expired, lastModify, lastQuery,
          signal, anomalyEvents, rows, batch, single>>

is_trained == ~IsNone(model) /\ ~IsNone(scaler)

\* n is the count of line 70, prepared the number of rows of the feature
\* matrix of line 81 (-1 before it is built)
TrainIdle ==
    [n |-> 0, prepared |-> -1, save |-> FALSE, id |-> 0, xOob |-> FALSE,
     outcome |-> "none", preModel |-> NoneObj, preScaler |-> NoneObj]

PredictIdle ==
    [reading |-> [sensor_type |-> "moisture", value |-> 50], route |-> "none",
     raised |-> FALSE, verdict |-> NoVerdict,
     \* the label self.model.predict returned at line 164: -1, 1, or 0 when
     \* it was not called or raised
     label |-> 0,
     \* what the call found in self.scaler, in self.model at line 164 and in
     \* self.model at line 165: NoneObj (not read, or None), Unfitted, or the
     \* train call that fitted the object
     usedScaler |-> NoneObj, usedModel |-> NoneObj, usedScoreModel |-> NoneObj]

\* AnomalyDetector.__init__ with the model files in any state; the record
\* store already holds n readings inside the physical bounds, which belong
\* to plots that stay; the farm and the plot of the requests exist and the
\* plot has no reading yet.
InitDetector(n) ==
    /\ modelFile \in FileStates
    /\ scalerFile \in FileStates
    /\ initFiles = <<modelFile, scalerFile>>
    /\ model = _load_model(modelFile, scalerFile)[1]
    /\ scaler = _load_model(modelFile, scalerFile)[2]
    /\ scalerFit = [i \in ObjIds |-> IF i = 0 THEN 0 ELSE Unfitted]
    /\ modelFit = [i \in ObjIds |-> IF i = 0 THEN 0 ELSE Unfitted]
    /\ nextId = 1
    /\ storeN = n
    /\ storeOob = 0
    /\ farmPlot = [farm |-> TRUE, plot |-> TRUE, id |-> 1, rows |-> 0]
    /\ now = 0
    /\ bulk = <<>>
    /\ pcT = [t \in Trainers |-> "idle"]
    /\ trainLoc = [t \in Trainers |-> TrainIdle]
    /\ pcP = [p \in Predictors |-> "idle"]
    /\ predLoc = [p \in Predictors |-> PredictIdle]
    /\ fedByPredict = FALSE
    /\ fedByTrain = FALSE
    /\ trainSucceeded = FALSE

NoUpdate == [at |-> -1, before |-> <<>>]
NoModify ==
    [target |-> -1, sensor_type |-> "none", normal_value |-> 0, result |-> 0]

NoQuery == [method |-> "none", names |-> <<>>, any |-> FALSE]

\* no call of detect_anomaly_on_save has been made: has_result says whether
\* predict returned a result to it, sink_calls counts its calls of
\* AnomalyEvent.objects.create, events the rows they wrote, raised whether
\* an exception left the handler
NoSignal ==
    [pc |-> "idle", created |-> FALSE,
     reading |-> [sensor_type |-> "moisture", value |-> 50],
     \* instance.plot_id
     plot_id |-> 0,
     trained |-> FALSE, has_result |-> FALSE, result |-> NoVerdict,
     \* sink_failed: AnomalyEvent.objects.create raised
     sink_calls |-> 0, sink_failed |-> FALSE, events |-> 0, raised |-> FALSE]

\* the process before any reading is saved: no AnomalyEvent row
InitSignal ==
    /\ signal = NoSignal
    /\ anomalyEvents = 0

NoVector == nan_to_num(FeatureMatrix_Raw(<<[timestamp |-> 0, value |-> 0]>>)[1])
NoBatch == [called |-> FALSE, raised |-> FALSE, X |-> <<>>]
\* at is the instant of the call
NoSingle ==
    [called |-> FALSE, at |-> 0, reading |-> [timestamp |-> 0, value |-> 0],
     raised |-> FALSE, X |-> NoVector]

\* the group has no reading yet and the preprocessor has not been called
InitFeatures ==
    /\ rows = <<>>
    /\ batch = NoBatch
    /\ single = NoSingle

\* AnomalyManager.__init__ followed by the add_scenario calls of a factory
InitManager(manager) ==
    /\ clock = 0
    /\ scenarios = manager
    /\ lastUpdate = NoUpdate
    /\ expired = {}
    /\ lastModify = NoModify
    /\ lastQuery = NoQuery

Init ==
    /\ InitDetector(StoreInit)
    /\ confIn = <<0, 0>>
    /\ confOut = <<>>
    /\ InitManager(AnomalyManager)
    /\ InitSignal
    /\ InitFeatures


\* ----------------------------------------------------------------- ingestion
\* SensorReadingSerializer.create, lines 27-39: FieldPlot.objects.get finds
\* the plot of the request.  The model holds one plot at a time, the one
\* created last; no other id names a plot.
PlotFound(plot_id) == farmPlot.plot /\ plot_id = farmPlot.id

\* is_valid: the field validators of the serializer, lines 41-52
is_valid(item) == validate_sensor_type(item.sensor_type) /\ validate_value(item.value)

\* SensorReading.objects.create: one INSERT.  auto_now_add (models.py:64)
\* stamps the row with the server clock, whatever timestamp the request
\* carries (a read-only field, serializers.py:25); the next request is
\* served a second later at the earliest.  A row of the group joins rows,
\* and the results of the preprocessor calls on the old rows are dropped.
InsertRow(item) ==
    /\ storeN' = storeN + 1
    /\ storeOob' = storeOob
          + (IF validate_sensor_reading(
                    [sensor_type |-> item.sensor_type, value |-> item.value]).is_valid
             THEN 0 ELSE 1)
    /\ farmPlot' = [farmPlot EXCEPT !.rows = @ + 1]
    /\ now' = now + 1
    /\ rows' = IF item.sensor_type = GroupType
               THEN Append(rows, [timestamp |-> now, value |-> item.value])
               ELSE rows
    /\ batch' = NoBatch
    /\ single' = NoSingle

\* SensorReadingViewSet.create: the serializer validates the field values,
\* then looks the plot up and writes the reading to the record store; a
\* rejected request (400) changes nothing.  No receiver is connected to
\* post_save (apps.py:13-19), so no detection runs.
Ingest(sensor_type, value, plot_id) ==
    /\ LET item == [sensor_type |-> sensor_type, value |-> value, plot_id |-> plot_id]
       IN  IF is_valid(item) /\ PlotFound(plot_id)
           THEN InsertRow(item)
           ELSE UNCHANGED <<storeN, storeOob, farmPlot, now, featureVars>>
    /\ UNCHANGED <<bulk, detectorVars, trainVars, predictVars, confVars, injectorVars, signalVars>>

\* SensorReadingViewSet.bulk_create, lines 120-137: is_valid on the whole
\* list before any row is written; a list with an invalid item is rejected
BulkCreate(items) ==
    /\ bulk = <<>>
    /\ bulk' = IF \A i \in DOMAIN items : is_valid(items[i]) THEN items ELSE <<>>
    /\ UNCHANGED <<storeN, storeOob, farmPlot, now, detectorVars, trainVars, predictVars,
                   confVars, injectorVars, signalVars, featureVars>>

\* line 133, perform_create: ListSerializer.create calls the create of the
\* item serializer for one item after the other, each an INSERT of its own;
\* an item whose plot is not found raises ValidationError, which ends the
\* request and leaves the rows written before it
BulkWrite ==
    /\ bulk # <<>>
    /\ IF PlotFound(Head(bulk).plot_id)
       THEN /\ InsertRow(Head(bulk))
            /\ bulk' = Tail(bulk)
       ELSE /\ bulk' = <<>>
            /\ UNCHANGED <<storeN, storeOob, farmPlot, now, featureVars>>
    /\ UNCHANGED <<detectorVars, trainVars, predictVars, confVars, injectorVars, signalVars>>

\* FarmProfileViewSet and FieldPlotViewSet, the create route
CreateFarm ==
    /\ ~farmPlot.farm
    /\ farmPlot' = [farmPlot EXCEPT !.farm = TRUE]
    /\ UNCHANGED <<storeN, storeOob, now, bulk, detectorVars, trainVars, predictVars, confVars, injectorVars, signalVars, featureVars>>

\* the new plot gets the next id of the table (the AutoField of FieldPlot);
\* the id of a deleted plot names no plot again
CreatePlot ==
    /\ farmPlot.farm
    /\ ~farmPlot.plot
    /\ farmPlot.id < MaxPlotId
    /\ farmPlot' = [farmPlot EXCEPT !.plot = TRUE, !.id = @ + 1]
    /\ UNCHANGED <<storeN, storeOob, now, bulk, detectorVars, trainVars, predictVars, confVars, injectorVars, signalVars, featureVars>>

\* SeverityLevel, models.py:14-17
SeverityChoices == {"low", "medium", "high"}

\* AnomalyEventViewSet, the create route (POST /api/anomalies/): the
\* plot must exist (serializers.py:70-78), severity is one of the choices
\* and model_confidence lies in [0, 1] (models.py:87-91)
CreateAnomalyEvent(plot_id, severity, model_confidence) ==
    /\ anomalyEvents < MaxEvents
    /\ anomalyEvents' =
          IF /\ PlotFound(plot_id)
             /\ severity \in SeverityChoices
             /\ model_confidence >= 0
             /\ model_confidence <= One
          THEN anomalyEvents + 1
          ELSE anomalyEvents
    /\ UNCHANGED <<detectorVars, storeVars, trainVars, predictVars, confVars,
                   injectorVars, signal, featureVars>>

\* the readings and the anomaly events of the plot are deleted with it
\* (models.py:69-73 and 93-97).  The rows the store held at the start are
\* inside the physical bounds and belong to other plots.
CascadePlot ==
    /\ storeN' = storeN - farmPlot.rows
    /\ storeOob' = 0
    /\ anomalyEvents' = 0
    /\ rows' = <<>>
    /\ batch' = NoBatch
    /\ single' = NoSingle

\* FieldPlotViewSet, the destroy route
DeletePlot ==
    /\ farmPlot.plot
    /\ CascadePlot
    /\ farmPlot' = [farmPlot EXCEPT !.plot = FALSE, !.rows = 0]
    /\ UNCHANGED <<now, bulk, detectorVars, trainVars, predictVars, confVars, injectorVars, signal>>

\* FarmProfileViewSet, the destroy route: the plots of the farm are deleted
\* with it (models.py:46-50), and their readings and events with them
DeleteFarm ==
    /\ farmPlot.farm
    /\ CascadePlot
    /\ farmPlot' = [farmPlot EXCEPT !.farm = FALSE, !.plot = FALSE, !.rows = 0]
    /\ UNCHANGED <<now, bulk, detectorVars, trainVars, predictVars, confVars, injectorVars, signal>>

\* time passes between two requests
Tick(d) ==
    /\ now + d <= MaxNow
    /\ now' = now + d
    /\ UNCHANGED <<storeN, storeOob, farmPlot, bulk, detectorVars, trainVars, predictVars,
                   confVars, injectorVars, signalVars, featureVars>>

\* --------------------------------------------------------------------- train
\* how joblib.dump can end: normally, raising before the file is opened,
\* raising while the file is written
DumpOutcomes == {"no", "open", "write"}

\* the file a failed joblib.dump leaves
DumpFailed(file, fail) == IF fail = "write" THEN "corrupt" ELSE file

TrainRaise(t, error) ==
    /\ pcT' = [pcT EXCEPT ![t] = "done"]
    /\ trainLoc' = [trainLoc EXCEPT ![t].outcome = error]

\* lines 61-78: the query set of the record store and the check of its
\* count
TrainCall(t, save, maxCalls) ==
    /\ pcT[t] \in {"idle", "done"}
    /\ nextId <= maxCalls
    /\ LET loc == [TrainIdle EXCEPT !.n = storeN, !.save = save,
                                    !.preModel = model, !.preScaler = scaler]
       IN  IF InsufficientData(storeN)
           THEN /\ pcT' = [pcT EXCEPT ![t] = "done"]
                /\ trainLoc' = [trainLoc EXCEPT ![t] = [loc EXCEPT !.outcome = "insufficient_data"]]
           ELSE /\ pcT' = [pcT EXCEPT ![t] = "prepare"]
                /\ trainLoc' = [trainLoc EXCEPT ![t] = loc]
    /\ UNCHANGED <<detectorVars, storeVars, fedByTrain, trainSucceeded, predictVars, confVars, injectorVars, signalVars, featureVars>>

\* line 81: prepare_training_data evaluates the query set again: the
\* feature matrix is built from the rows the store holds now.  ValueError
\* on an empty frame.
TrainPrepare(t, fail) ==
    /\ pcT[t] = "prepare"
    /\ IF fail \/ storeN = 0
       THEN /\ TrainRaise(t, "prepare_error")
            /\ UNCHANGED nextId
       ELSE /\ pcT' = [pcT EXCEPT ![t] = "new_scaler"]
            /\ trainLoc' = [trainLoc EXCEPT ![t].prepared = storeN,
                                            ![t].xOob = storeOob > 0,
                                            ![t].id = nextId]
            /\ nextId' = nextId + 1
    /\ UNCHANGED <<model, scaler, scalerFit, modelFit, modelFile, scalerFile,
                   initFiles, storeVars, fedByTrain, trainSucceeded, predictVars, confVars, injectorVars, signalVars, featureVars>>

\* line 87: self.scaler = StandardScaler()
TrainNewScaler(t) ==
    /\ pcT[t] = "new_scaler"
    /\ scaler' = trainLoc[t].id
    /\ pcT' = [pcT EXCEPT ![t] = "fit_scaler"]
    /\ UNCHANGED <<model, scalerFit, modelFit, nextId, modelFile, scalerFile,
                   initFiles, storeVars, trainLoc, fedByTrain, trainSucceeded, predictVars, confVars, injectorVars, signalVars, featureVars>>

\* line 88: X_scaled = self.scaler.fit_transform(X)
TrainFitScaler(t, fail) ==
    /\ pcT[t] = "fit_scaler"
    /\ fedByTrain' = (fedByTrain \/ trainLoc[t].xOob)
    /\ IF fail
       THEN /\ TrainRaise(t, "scaler_fit_error")
            /\ UNCHANGED scalerFit
       ELSE /\ scalerFit' = [scalerFit EXCEPT ![scaler] = trainLoc[t].id]
            /\ pcT' = [pcT EXCEPT ![t] = "new_model"]
            /\ UNCHANGED trainLoc
    /\ UNCHANGED <<model, scaler, modelFit, nextId, modelFile, scalerFile,
                   initFiles, storeVars, trainSucceeded, predictVars, confVars, injectorVars, signalVars, featureVars>>

\* line 91: self.model = IsolationForest(**ISOLATION_FOREST_CONFIG)
TrainNewModel(t) ==
    /\ pcT[t] = "new_model"
    /\ model' = trainLoc[t].id
    /\ pcT' = [pcT EXCEPT ![t] = "fit_model"]
    /\ UNCHANGED <<scaler, scalerFit, modelFit, nextId, modelFile, scalerFile,
                   initFiles, storeVars, trainLoc, fedByTrain, trainSucceeded, predictVars, confVars, injectorVars, signalVars, featureVars>>

\* line 92: self.model.fit(X_scaled)
TrainFitModel(t, fail) ==
    /\ pcT[t] = "fit_model"
    /\ IF fail
       THEN /\ TrainRaise(t, "model_fit_error")
            /\ UNCHANGED modelFit
       ELSE /\ modelFit' = [modelFit EXCEPT ![model] = trainLoc[t].id]
            /\ pcT' = [pcT EXCEPT ![t] = "score"]
            /\ UNCHANGED trainLoc
    /\ UNCHANGED <<model, scaler, scalerFit, nextId, modelFile, scalerFile,
                   initFiles, storeVars, fedByTrain, trainSucceeded, predictVars, confVars, injectorVars, signalVars, featureVars>>

\* line 95: self.model.score_samples on the training matrix;
\* NotFittedError on an unfitted ensemble
TrainScoreSamples(t) ==
    /\ pcT[t] = "score"
    /\ IF modelFit[model] = Unfitted
       THEN TrainRaise(t, "score_error")
       ELSE /\ pcT' = [pcT EXCEPT ![t] = "score_predict"]
            /\ UNCHANGED trainLoc
    /\ UNCHANGED <<detectorVars, storeVars, fedByTrain, trainSucceeded,
                   predictVars, confVars, injectorVars, signalVars, featureVars>>

\* lines 96-108: self.model is read again for self.model.predict; a call
\* with save = False then returns (lines 114-123)
TrainScorePredict(t) ==
    /\ pcT[t] = "score_predict"
    /\ IF modelFit[model] = Unfitted
       THEN /\ TrainRaise(t, "score_error")
            /\ UNCHANGED trainSucceeded
       ELSE IF trainLoc[t].save
       THEN /\ pcT' = [pcT EXCEPT ![t] = "save_model"]
            /\ UNCHANGED <<trainLoc, trainSucceeded>>
       ELSE /\ pcT' = [pcT EXCEPT ![t] = "done"]
            /\ trainLoc' = [trainLoc EXCEPT ![t].outcome = "ok"]
            /\ trainSucceeded' = TRUE
    /\ UNCHANGED <<detectorVars, storeVars, fedByTrain, predictVars, confVars, injectorVars, signalVars, featureVars>>

\* line 109: joblib.dump(self.model, MODEL_FILE); a failure to open the
\* file leaves it as it was, a failure after it was opened for writing
\* leaves it emptied or partly written
TrainSaveModel(t, fail) ==
    /\ pcT[t] = "save_model"
    /\ IF fail # "no"
       THEN /\ TrainRaise(t, "save_error")
            /\ modelFile' = DumpFailed(modelFile, fail)
       ELSE /\ modelFile' = "ok"
            /\ pcT' = [pcT EXCEPT ![t] = "save_scaler"]
            /\ UNCHANGED trainLoc
    /\ UNCHANGED <<model, scaler, scalerFit, modelFit, nextId, scalerFile,
                   initFiles, storeVars, fedByTrain, trainSucceeded, predictVars, confVars, injectorVars, signalVars, featureVars>>

\* lines 110-123: joblib.dump(self.scaler, SCALER_FILE), then return; when
\* it fails the model file is already written
TrainSaveScaler(t, fail) ==
    /\ pcT[t] = "save_scaler"
    /\ IF fail # "no"
       THEN /\ TrainRaise(t, "save_error")
            /\ scalerFile' = DumpFailed(scalerFile, fail)
            /\ UNCHANGED trainSucceeded
       ELSE /\ scalerFile' = "ok"
            /\ pcT' = [pcT EXCEPT ![t] = "done"]
            /\ trainLoc' = [trainLoc EXCEPT ![t].outcome = "ok"]
            /\ trainSucceeded' = TRUE
    /\ UNCHANGED <<model, scaler, scalerFit, modelFit, nextId, modelFile,
                   initFiles, storeVars, fedByTrain, predictVars, confVars, injectorVars, signalVars, featureVars>>

\* ------------------------------------------------------------------- predict
PredictReturn(p, loc) ==
    /\ pcP' = [pcP EXCEPT ![p] = "done"]
    /\ predLoc' = [predLoc EXCEPT ![p] = loc]

\* the except clause of predict, entered from the try block
PredictHandle(p, loc, route) ==
    LET h == PredictExcept(loc.reading)
    IN  PredictReturn(p, [loc EXCEPT !.route = route, !.raised = h.raised,
                                     !.verdict = h.verdict])

\* lines 143-156: validation, then the test "self.model is None"
PredictCall(p, reading) ==
    /\ pcP[p] \in {"idle", "done"}
    /\ LET loc == [PredictIdle EXCEPT !.reading = reading]
           v == validate_sensor_reading(reading)
       IN  IF ~v.is_valid
           THEN PredictReturn(p, [loc EXCEPT !.route = "validation",
                                             !.verdict = InvalidReadingVerdict(v.error)])
           ELSE IF IsNone(model)
           THEN PredictReturn(p, [loc EXCEPT !.route = "untrained",
                                             !.verdict = _rule_based_detection(reading)])
           ELSE /\ pcP' = [pcP EXCEPT ![p] = "scale"]
                /\ predLoc' = [predLoc EXCEPT ![p] = loc]
    /\ UNCHANGED <<detectorVars, storeVars, trainVars, fedByPredict, confVars, injectorVars, signalVars, featureVars>>

\* lines 160-161: prepare_single_reading, then self.scaler.transform(X).
\* transform raises AttributeError when self.scaler is None and
\* NotFittedError when the scaler has not been fitted.
PredictScale(p, fail) ==
    /\ pcP[p] = "scale"
    /\ IF fail
       THEN /\ PredictHandle(p, predLoc[p], "prepare_error")
            /\ UNCHANGED fedByPredict
       ELSE LET seen == IF IsNone(scaler) THEN NoneObj ELSE scalerFit[scaler]
                loc == [predLoc[p] EXCEPT !.usedScaler = seen]
            IN  /\ fedByPredict' = (fedByPredict
                                    \/ ~validate_sensor_reading(loc.reading).is_valid)
                /\ IF seen \in {NoneObj, Unfitted}
                   THEN PredictHandle(p, loc, "scale_error")
                   ELSE /\ pcP' = [pcP EXCEPT ![p] = "infer"]
                        /\ predLoc' = [predLoc EXCEPT ![p] = loc]
    /\ UNCHANGED <<detectorVars, storeVars, trainVars, confVars, injectorVars, signalVars, featureVars>>

\* line 164: self.model.predict gives the label; NotFittedError when the
\* ensemble has not been fitted
PredictLabel(p, fail, prediction) ==
    /\ pcP[p] = "infer"
    /\ LET loc == [predLoc[p] EXCEPT !.usedModel = modelFit[model]]
       IN  IF fail \/ modelFit[model] = Unfitted
           THEN PredictHandle(p, loc, "inference_error")
           ELSE /\ pcP' = [pcP EXCEPT ![p] = "score"]
                /\ predLoc' = [predLoc EXCEPT ![p] = [loc EXCEPT !.label = prediction]]
    /\ UNCHANGED <<detectorVars, storeVars, trainVars, fedByPredict, confVars, injectorVars, signalVars, featureVars>>

\* lines 165-193: self.model is read again for score_samples, which gives
\* the score; then the verdict from the label of line 164 and this score
PredictScore(p, fail, score) ==
    /\ pcP[p] = "score"
    /\ LET loc == [predLoc[p] EXCEPT !.usedScoreModel = modelFit[model]]
       IN  IF fail \/ modelFit[model] = Unfitted
           THEN PredictHandle(p, loc, "inference_error")
           ELSE PredictReturn(p, [loc EXCEPT
                    !.route = "scorer",
                    !.verdict = PredictResult(loc.reading, loc.label, score)])
    /\ UNCHANGED <<detectorVars, storeVars, trainVars, fedByPredict, confVars, injectorVars, signalVars, featureVars>>

\* a direct call of AnomalyDetector._rule_based_detection
RuleBasedCall(p, reading) ==
    /\ pcP[p] \in {"idle", "done"}
    /\ PredictReturn(p, [PredictIdle EXCEPT !.reading = reading, !.route = "rule_based",
                                            !.verdict = _rule_based_detection(reading)])
    /\ UNCHANGED <<detectorVars, storeVars, trainVars, fedByPredict, confVars, injectorVars, signalVars, featureVars>>

\* ------------------------------------------------------------- specification
TrainStep(t, maxCalls) ==
    \/ \E save \in BOOLEAN : TrainCall(t, save, maxCalls)
    \/ \E fail \in BOOLEAN : TrainPrepare(t, fail)
    \/ TrainNewScaler(t)
    \/ \E fail \in BOOLEAN : TrainFitScaler(t, fail)
    \/ TrainNewModel(t)
    \/ \E fail \in BOOLEAN : TrainFitModel(t, fail)
    \/ TrainScoreSamples(t)
    \/ TrainScorePredict(t)
    \/ \E fail \in DumpOutcomes : TrainSaveModel(t, fail)
    \/ \E fail \in DumpOutcomes : TrainSaveScaler(t, fail)

PredictStep(p, R) ==
    \/ \E reading \in R : PredictCall(p, reading)
    \/ \E fail \in BOOLEAN : PredictScale(p, fail)
    \/ \E fail \in BOOLEAN, prediction \in Labels : PredictLabel(p, fail, prediction)
    \/ \E fail \in BOOLEAN, score \in PredictScores : PredictScore(p, fail, score)

IngestStep ==
    /\ storeN < MaxStore
    /\ \E sensor_type \in AllTypes, value \in IngestValues, plot_id \in PlotIds :
          Ingest(sensor_type, value, plot_id)

BulkStep ==
    \/ \E n \in 1 .. MaxBulk : \E items \in [1 .. n -> BulkItems] : BulkCreate(items)
    \/ storeN < MaxStore /\ BulkWrite

PlotStep ==
    \/ CreateFarm
    \/ CreatePlot
    \/ DeletePlot
    \/ DeleteFarm

AnomalyEventStep ==
    \E plot_id \in PlotIds, severity \in {"low", "critical"}, model_confidence \in {90, 150} :
        CreateAnomalyEvent(plot_id, severity, model_confidence)

\* The detector in its process: readings are ingested, one thread trains
\* and one thread predicts.
Next ==
    \/ IngestStep
    \/ TrainStep("t1", MaxTrainCalls)
    \/ PredictStep("p1", CoreReadings)

Spec == Init /\ [][Next]_vars

\* The record store under the requests of the API while one thread trains:
\* readings are posted one by one and in lists, plots and farms are
\* created and deleted, anomaly events are posted.
InitStore ==
    /\ Init
    /\ modelFile = "missing"
    /\ scalerFile = "missing"

NextStore ==
    \/ now < MaxWrites /\ IngestStep
    \/ now < MaxWrites /\ BulkStep
    \/ PlotStep
    \/ AnomalyEventStep
    \/ TrainStep("t1", MaxTrainCalls)

SpecStore == InitStore /\ [][NextStore]_vars

\* The detection path alone, on every reading, from every state the
\* constructor leaves.
NextDetect ==
    \/ PredictStep("p1", Readings)
    \/ \E reading \in Readings : RuleBasedCall("p1", reading)

SpecDetect == Init /\ [][NextDetect]_vars

\* Two threads train on the same detector.
InitConc ==
    /\ InitDetector(MinSamples)
    /\ confIn = <<0, 0>>
    /\ confOut = <<>>
    /\ InitManager(AnomalyManager)
    /\ InitSignal
    /\ InitFeatures

NextConc ==
    \E t \in Trainers : TrainStep(t, MaxConcTrainCalls)

SpecConc == InitConc /\ [][NextConc]_vars

\* _score_to_confidence applied to two scores
ScoreToConfidenceCall ==
    /\ confOut = <<>>
    /\ confOut' = <<_score_to_confidence(confIn[1]), _score_to_confidence(confIn[2])>>
    /\ UNCHANGED <<detectorVars, storeVars, trainVars, predictVars, confIn, injectorVars, signalVars, featureVars>>

InitConf ==
    /\ InitDetector(StoreInit)
    /\ modelFile = "ok"
    /\ scalerFile = "ok"
    /\ confIn \in ScoreSet \X ScoreSet
    /\ confOut = <<>>
    /\ InitManager(AnomalyManager)
    /\ InitSignal
    /\ InitFeatures

NextConf == ScoreToConfidenceCall

SpecConf == InitConf /\ [][NextConf]_vars


\* --------------------------------------------------------- scenario injector
\* the clock of the process advances by one period
Advance ==
    /\ clock < MaxClockSteps * SIMULATION_INTERVAL_MINUTES
    /\ clock' = clock + SIMULATION_INTERVAL_MINUTES
    /\ lastModify' = NoModify
    /\ lastQuery' = NoQuery
    /\ UNCHANGED <<scenarios, lastUpdate, expired>>
    /\ UNCHANGED <<detectorVars, storeVars, trainVars, predictVars, confVars, signalVars, featureVars>>

\* AnomalyManager.update(); the clock reads of one call return one instant
Update ==
    /\ scenarios' = [i \in DOMAIN scenarios |-> UpdateScenario(scenarios[i], clock)]
    /\ lastUpdate' = [at |-> clock, before |-> scenarios]
    /\ expired' = expired \cup
          {i \in DOMAIN scenarios :
               (scenarios[i].is_active \/ scenarios'[i].start_time # scenarios[i].start_time)
               /\ ~scenarios'[i].is_active}
    /\ lastModify' = NoModify
    /\ lastQuery' = NoQuery
    /\ UNCHANGED clock
    /\ UNCHANGED <<detectorVars, storeVars, trainVars, predictVars, confVars, signalVars, featureVars>>

\* the caller holds no returned value: it takes the value a call returns
\* before the loop goes on
CallerIdle == lastModify = NoModify /\ lastQuery = NoQuery

\* a modify_reading that switches the scenarios off as it returns
ModifyReturn_Deactivating(target, sensor_type, normal_value, result) ==
    /\ CallerIdle
    /\ lastModify' = [target |-> target, sensor_type |-> sensor_type,
                      normal_value |-> normal_value, result |-> result]
    /\ scenarios' = [i \in DOMAIN scenarios |-> deactivate(scenarios[i])]
    /\ UNCHANGED <<clock, lastUpdate, expired, lastQuery>>
    /\ UNCHANGED <<detectorVars, storeVars, trainVars, predictVars, confVars, signalVars, featureVars>>

\* modify_reading assigns no attribute of the scenario or the manager
ModifyReturn(target, sensor_type, normal_value, result) ==
    /\ CallerIdle
    /\ lastModify' = [target |-> target, sensor_type |-> sensor_type,
                      normal_value |-> normal_value, result |-> result]
    /\ UNCHANGED <<clock, scenarios, lastUpdate, expired, lastQuery>>
    /\ UNCHANGED <<detectorVars, storeVars, trainVars, predictVars, confVars, signalVars, featureVars>>

\* AnomalyManager.get_active_scenarios()
GetActiveScenarios ==
    /\ CallerIdle
    /\ lastQuery' = [method |-> "get_active_scenarios",
                     names |-> get_active_scenarios(scenarios), any |-> FALSE]
    /\ UNCHANGED <<clock, scenarios, lastUpdate, expired, lastModify>>
    /\ UNCHANGED <<detectorVars, storeVars, trainVars, predictVars, confVars, signalVars, featureVars>>

\* AnomalyManager.has_active_anomalies()
HasActiveAnomalies ==
    /\ CallerIdle
    /\ lastQuery' = [method |-> "has_active_anomalies",
                     names |-> <<>>, any |-> has_active_anomalies(scenarios)]
    /\ UNCHANGED <<clock, scenarios, lastUpdate, expired, lastModify>>
    /\ UNCHANGED <<detectorVars, storeVars, trainVars, predictVars, confVars, signalVars, featureVars>>

\* a call of modify_reading on the i-th scenario, a SuddenDropScenario
SuddenDropModify(i, sensor_type, normal_value) ==
    /\ scenarios[i].kind = "sudden_drop"
    /\ ModifyReturn(i, sensor_type, normal_value,
           SuddenDrop_modify_reading(scenarios[i], clock, sensor_type, normal_value))

\* the same on a SpikeScenario, with the values the random generator returns
SpikeModify(i, sensor_type, normal_value, d) ==
    /\ scenarios[i].kind = "spike"
    /\ ModifyReturn(i, sensor_type, normal_value,
           Spike_modify_reading(scenarios[i], sensor_type, normal_value, d))

\* the same on a DriftScenario
DriftModify(i, sensor_type, normal_value) ==
    /\ scenarios[i].kind = "drift"
    /\ ModifyReturn(i, sensor_type, normal_value,
           Drift_modify_reading(scenarios[i], clock, sensor_type, normal_value))

\* AnomalyManager.modify_reading; the target 0 stands for the manager
ManagerModify(sensor_type, normal_value, d) ==
    ModifyReturn(0, sensor_type, normal_value,
        AnomalyManager_modify_reading(scenarios, 1, clock, sensor_type, normal_value, d))

\* a manager built by one of the factories, driven by a loop that lets the
\* clock advance, calls update() and has readings modified
InitInjector ==
    /\ InitDetector(StoreInit)
    /\ modelFile = "missing"
    /\ scalerFile = "missing"
    /\ confIn = <<0, 0>>
    /\ confOut = <<>>
    /\ \E manager \in Managers : InitManager(manager)
    /\ InitSignal
    /\ InitFeatures

NextInjector ==
    \/ Advance
    \/ Update
    \/ \E i \in DOMAIN scenarios, sensor_type \in AllTypes, normal_value \in NormalValues :
          SuddenDropModify(i, sensor_type, normal_value)
    \/ \E i \in DOMAIN scenarios, sensor_type \in AllTypes, normal_value \in NormalValues,
          d \in Draws :
          SpikeModify(i, sensor_type, normal_value, d)
    \/ \E i \in DOMAIN scenarios, sensor_type \in AllTypes, normal_value \in NormalValues :
          DriftModify(i, sensor_type, normal_value)
    \/ \E sensor_type \in AllTypes, normal_value \in NormalValues, d \in Draws :
          ManagerModify(sensor_type, normal_value, d)
    \/ GetActiveScenarios
    \/ HasActiveAnomalies

SpecInjector == InitInjector /\ [][NextInjector]_vars

\* --------------------------------------------------------- post_save handler
\* detect_anomaly_on_save, lines 38-53, called by the save of a reading of
\* the plot: an update is ignored, and so is a new reading when the
\* detector is not trained; otherwise predict is called with the saved
\* reading.
SignalCall(p, created, reading) ==
    /\ signal.pc \in {"idle", "done"}
    /\ pcP[p] = "idle"
    /\ anomalyEvents < MaxEvents
    /\ farmPlot.plot
    /\ LET s == [NoSignal EXCEPT !.created = created, !.reading = reading,
                                 !.plot_id = farmPlot.id, !.trained = is_trained]
       IN  IF ~created \/ ~is_trained
           THEN signal' = [s EXCEPT !.pc = "done"]
           ELSE signal' = [s EXCEPT !.pc = "predict"]
    /\ UNCHANGED <<detectorVars, storeVars, trainVars, predictVars, confVars,
                   injectorVars, anomalyEvents, featureVars>>

\* line 53: the steps of detector.predict(instance)
SignalPredictStep(p) ==
    /\ signal.pc = "predict"
    /\ PredictStep(p, IF pcP[p] = "idle" THEN {signal.reading} ELSE {})

\* an except clause that raises the exception again
SignalExcept_Reraise == TRUE

\* lines 79-84: the except clause of the handler prints the exception and
\* returns; whether the exception leaves the handler
SignalExcept == FALSE

\* the rows AnomalyEvent.objects.create(plot=instance.plot, ...) writes:
\* none when it raises, which it does when the plot has been deleted
SinkRows(sinkFail) == IF sinkFail \/ ~PlotFound(signal.plot_id) THEN 0 ELSE 1

\* a handler that records an event for every result predict returns
SignalReturn_AlwaysRecord(p, sinkFail) ==
    /\ signal.pc = "predict"
    /\ pcP[p] = "done"
    /\ LET done == [signal EXCEPT !.pc = "done"]
           got == [done EXCEPT !.has_result = TRUE, !.result = predLoc[p].verdict]
           written == SinkRows(sinkFail)
       IN  IF predLoc[p].raised
           THEN signal' = [done EXCEPT !.raised = SignalExcept] /\ UNCHANGED anomalyEvents
           ELSE /\ anomalyEvents' = anomalyEvents + written
                /\ signal' = [got EXCEPT !.sink_calls = 1,
                                         !.sink_failed = (written = 0),
                                         !.events = anomalyEvents' - anomalyEvents,
                                         !.raised = (written = 0 /\ SignalExcept)]
    /\ pcP' = [pcP EXCEPT ![p] = "idle"]
    /\ predLoc' = [predLoc EXCEPT ![p] = PredictIdle]
    /\ UNCHANGED <<detectorVars, storeVars, trainVars, fedByPredict, confVars,
                   injectorVars, featureVars>>

\* lines 53-84: predict has returned or raised.  An exception of predict is
\* caught by the except clause; a result with is_anomaly is handed to
\* AnomalyEvent.objects.create, whose failure is caught by the same clause.
\* events is the number of rows the call added to the table.
SignalReturn(p, sinkFail) ==
    /\ signal.pc = "predict"
    /\ pcP[p] = "done"
    /\ LET done == [signal EXCEPT !.pc = "done"]
           got == [done EXCEPT !.has_result = TRUE, !.result = predLoc[p].verdict]
           written == SinkRows(sinkFail)
       IN  IF predLoc[p].raised
           THEN signal' = [done EXCEPT !.raised = SignalExcept] /\ UNCHANGED anomalyEvents
           ELSE IF ~predLoc[p].verdict.is_anomaly
           THEN signal' = got /\ UNCHANGED anomalyEvents
           ELSE /\ anomalyEvents' = anomalyEvents + written
                /\ signal' = [got EXCEPT !.sink_calls = 1,
                                         !.sink_failed = (written = 0),
                                         !.events = anomalyEvents' - anomalyEvents,
                                         !.raised = (written = 0 /\ SignalExcept)]
    /\ pcP' = [pcP EXCEPT ![p] = "idle"]
    /\ predLoc' = [predLoc EXCEPT ![p] = PredictIdle]
    /\ UNCHANGED <<detectorVars, storeVars, trainVars, fedByPredict, confVars,
                   injectorVars, featureVars>>

\* The handler, called for every saved reading, from every state the
\* constructor of the global detector leaves, while anomaly events are
\* posted and plots and farms are created and deleted.
NextSignal ==
    \/ \E created \in BOOLEAN, reading \in Readings : SignalCall("p1", created, reading)
    \/ SignalPredictStep("p1")
    \/ \E sinkFail \in BOOLEAN : SignalReturn("p1", sinkFail)
    \/ AnomalyEventStep
    \/ PlotStep

SpecSignal == Init /\ [][NextSignal]_vars

\* ------------------------------------------------------------- preprocessor
\* the preprocessor has not been called since the last reading was saved
PreprocessorIdle == ~batch.called /\ ~single.called

\* prepare_training_data on the rows of the group; ValueError on none
PrepareTraining ==
    /\ PreprocessorIdle
    /\ batch' = IF rows = <<>>
                THEN [NoBatch EXCEPT !.called = TRUE, !.raised = TRUE]
                ELSE [NoBatch EXCEPT !.called = TRUE, !.X = prepare_training_data(rows)]
    /\ UNCHANGED <<detectorVars, storeVars, trainVars, predictVars, confVars,
                   injectorVars, signalVars, rows, single>>

\* prepare_single_reading(reading), called as detector.predict calls it,
\* without recent_readings, on the row saved last (signals.py:53,
\* train.py:80-81); the query of the recent rows reads the server clock at
\* the call.  On a frame that holds a timestamp twice the .loc assignment
\* of daily_mean either raises or, where the installed pandas lets it
\* pass, stores NaN as on every other frame.
PrepareSingle(dupRaises) ==
    /\ PreprocessorIdle
    /\ rows # <<>>
    /\ LET reading == rows[Len(rows)]
           df == SingleFrame(rows, reading, now)
           call == [NoSingle EXCEPT !.called = TRUE, !.at = now, !.reading = reading]
       IN  single' = IF HasDuplicateTimestamps(df) /\ dupRaises
                     THEN [call EXCEPT !.raised = TRUE]
                     ELSE [call EXCEPT !.X = prepare_single_reading(rows, reading, now)]
    /\ UNCHANGED <<detectorVars, storeVars, trainVars, predictVars, confVars,
                   injectorVars, signalVars, rows, batch>>

PreprocessorStep ==
    \/ PrepareTraining
    \/ \E dupRaises \in BOOLEAN : PrepareSingle(dupRaises)

\* The preprocessor alone, on every history of the group whose readings
\* are posted one second after the other.
NextFeatures ==
    \/ Len(rows) < MaxRows /\ \E value \in FeatureValues : Ingest(GroupType, value, 1)
    \/ PreprocessorStep

InitPreprocessor ==
    /\ Init
    /\ modelFile = "missing"
    /\ scalerFile = "missing"

SpecFeatures == InitPreprocessor /\ [][NextFeatures]_vars

\* The preprocessor on the histories in which time passes between the
\* requests and before the calls.
NextTimed ==
    \/ Len(rows) < MaxTimedRows /\ \E value \in FeatureValues : Ingest(GroupType, value, 1)
    \/ PreprocessorIdle /\ \E d \in Delays : Tick(d)
    \/ PreprocessorStep

SpecTimed == InitPreprocessor /\ [][NextTimed]_vars

\* ---------------------------------------------------------------- properties
PredictRoutes ==
    {"validation", "untrained", "scorer", "prepare_error", "scale_error", "inference_error"}
ExceptRoutes == {"prepare_error", "scale_error", "inference_error"}

\* predict has returned to the caller of thread p
Predicted(p) == pcP[p] = "done" /\ predLoc[p].route \in PredictRoutes

\* the physical bounds as the data model states them
OutOfPhysicalBounds(r) ==
    \/ r.sensor_type \in {"moisture", "humidity"} /\ (r.value < 0 \/ r.value > 100)
    \/ r.sensor_type = "temperature" /\ (r.value < -20 \/ r.value > 60)
InPhysicalBounds(r) ==
    \/ r.sensor_type \in {"moisture", "humidity"} /\ r.value >= 0 /\ r.value <= 100
    \/ r.sensor_type = "temperature" /\ r.value >= -20 /\ r.value <= 60

\* C1: for every reading whose value is outside the physical bounds of its
\* sensor type, predict returns is_anomaly = true, anomaly_type =
\* sensor_malfunction, severity = high and confidence = 1.0, whatever model
\* and scaler the detector holds.
C1_OutOfBoundsIsMalfunction ==
    \A p \in Predictors :
        Predicted(p) /\ OutOfPhysicalBounds(predLoc[p].reading) =>
            /\ ~predLoc[p].raised
            /\ predLoc[p].verdict.is_anomaly
            /\ predLoc[p].verdict.anomaly_type = "sensor_malfunction"
            /\ predLoc[p].verdict.severity = "high"
            /\ predLoc[p].verdict.confidence = One

\* a temperature above 60 was given to a detector that holds a model and a scaler
C1_Witness ==
    \E p \in Predictors :
        /\ Predicted(p)
        /\ predLoc[p].reading = [sensor_type |-> "temperature", value |-> 61]
        /\ is_trained
        /\ predLoc[p].verdict.confidence = One

\* C2: no reading outside the physical bounds ever has its features passed
\* to the scaler or the ensemble, neither by predict nor by train.
C2_OutOfBoundsNeverScored == ~fedByPredict /\ ~fedByTrain

\* C3: a reading with an unknown sensor type resolves to a malfunction
\* verdict, without an exception, on the validation step of predict and on
\* the rule-based fallback.
C3_UnknownTypeIsMalfunction ==
    \A p \in Predictors :
        pcP[p] = "done" /\ predLoc[p].reading.sensor_type \notin SensorTypes =>
            /\ ~predLoc[p].raised
            /\ predLoc[p].verdict.is_anomaly
            /\ predLoc[p].verdict.anomaly_type = "sensor_malfunction"

\* C4: when feature preparation, scaling or inference fails for a valid
\* reading on a detector that holds a model, predict raises nothing and
\* returns the verdict of the rule-based fallback for that reading.
C4_FailureFallsBack ==
    \A p \in Predictors :
        pcP[p] = "done" /\ predLoc[p].route \in ExceptRoutes =>
            /\ InPhysicalBounds(predLoc[p].reading)
            /\ ~IsNone(model)
            /\ ~predLoc[p].raised
            /\ ~predLoc[p].verdict.has_score
            /\ predLoc[p].verdict = _rule_based_detection(predLoc[p].reading)

\* inference failed on a critically dry moisture reading and the fallback
\* reported the irrigation failure
C4_Witness ==
    \E p \in Predictors :
        /\ pcP[p] = "done"
        /\ predLoc[p].route = "inference_error"
        /\ predLoc[p].reading = [sensor_type |-> "moisture", value |-> 20]
        /\ predLoc[p].verdict.anomaly_type = "irrigation_failure"

\* the model could not be loaded when the detector was constructed
ModelNotLoaded ==
    initFiles[1] = "missing" \/ initFiles[1] = "corrupt" \/ initFiles[2] = "corrupt"

NoTrainRunning == \A t \in Trainers : pcT[t] \in {"idle", "done"}

\* C5: a detector constructed without a loadable model file is untrained,
\* and until a train call succeeds every predict on a valid reading returns
\* the rule-based verdict without raising.
C5_UntrainedUntilTrainSucceeds ==
    ModelNotLoaded =>
        /\ nextId = 1 => ~is_trained
        /\ \A p \in Predictors :
              ( /\ ~trainSucceeded
                /\ NoTrainRunning
                /\ Predicted(p)
                /\ InPhysicalBounds(predLoc[p].reading) ) =>
                    /\ ~predLoc[p].raised
                    /\ predLoc[p].verdict = _rule_based_detection(predLoc[p].reading)

\* C6: a predict that runs while train replaces the model uses the complete
\* old pair or the complete new pair: it never finds an unfitted scaler or
\* ensemble, and never a scaler and an ensemble fitted by different calls.
C6_AtomicReplace ==
    \A p \in Predictors :
        /\ predLoc[p].usedScaler # Unfitted
        /\ predLoc[p].usedModel # Unfitted
        /\ predLoc[p].usedScaler # NoneObj /\ predLoc[p].usedModel # NoneObj =>
               predLoc[p].usedScaler = predLoc[p].usedModel

TrainFailed(t) == pcT[t] = "done" /\ trainLoc[t].outcome \notin {"ok", "none"}

\* C7: after a train call that failed, at whatever step, the detector holds
\* the model and the scaler it held before the call.
C7_FailedTrainMutatesNothing ==
    \A t \in Trainers :
        TrainFailed(t) => model = trainLoc[t].preModel /\ scaler = trainLoc[t].preScaler

\* failures of the library calls and of the file system, not of train's own checks
InjectedFailures == {"prepare_error", "scaler_fit_error", "model_fit_error", "save_error"}

\* the check of line 70 alone: a call that counts fewer than 50 rows ends
\* with the insufficient-data error, a call that counts 50 or more passes
CountThreshold ==
    \A t \in Trainers :
        pcT[t] # "idle" =>
            /\ trainLoc[t].n < 50 => pcT[t] = "done" /\ trainLoc[t].outcome = "insufficient_data"
            /\ trainLoc[t].n >= 50 => trainLoc[t].outcome # "insufficient_data"

\* C8: train fails with the insufficient-data error for every training set
\* of fewer than 50 samples: no call builds its feature matrix from fewer
\* than 50 rows and goes on to fit; with 50 samples or more it passes the
\* check and, when no step fails, completes and leaves the detector trained.
C8_TrainThreshold ==
    /\ CountThreshold
    /\ \A t \in Trainers :
        /\ trainLoc[t].prepared # -1 => trainLoc[t].prepared >= 50
        /\ pcT[t] = "done" /\ trainLoc[t].n >= 50 /\ trainLoc[t].outcome \notin InjectedFailures =>
              trainLoc[t].outcome = "ok" /\ is_trained

Quiescent ==
    \A t \in Trainers : pcT[t] \in {"idle", "done"} /\ trainLoc[t].outcome \in {"none", "ok"}

\* the held ensemble was fitted on data scaled by the held scaler
PairFromOneCall ==
    /\ modelFit[model] # Unfitted
    /\ modelFit[model] = scalerFit[scaler]

\* C9: train calls are serialized: at most one train call is between its
\* first and its last access to the held model and scaler, and once the calls
\* have returned the held pair comes from a single call.
C9_TrainSerialized ==
    /\ Cardinality({t \in Trainers : pcT[t] \notin {"idle", "done"}}) <= 1
    /\ Quiescent /\ is_trained => PairFromOneCall

\* the second half of C9 alone
C9_PairAfterTrains == Quiescent /\ is_trained => PairFromOneCall

\* clamp(x, lo, hi) as the mapping is specified
Clamp(x, lo, hi) == CASE x < lo -> lo [] x > hi -> hi [] OTHER -> x

\* C10: confidence = clamp(-score, 0, 1), and for scores s1 < s2 the
\* confidence of s1 is at least the confidence of s2.
C10_ConfidenceClampMonotonic ==
    confOut # <<>> =>
        /\ confOut[1] = Clamp(0 - confIn[1], 0, 100)
        /\ confOut[2] = Clamp(0 - confIn[2], 0, 100)
        /\ confIn[1] < confIn[2] => confOut[1] >= confOut[2]

\* a score below -1 and a positive score: both ends of the clamp
C10_Witness ==
    /\ confOut # <<>>
    /\ confIn[1] < -100
    /\ confIn[2] = 50
    /\ confOut = <<100, 0>>

Severities == {"low", "medium", "high"}

\* C11: every verdict predict returns, on the validation path, the rule-based
\* fallback and the scorer path, is well-formed: confidence lies in [0, 1],
\* severity is low, medium, high or absent, and anomaly_type and severity are
\* present exactly when is_anomaly is true.
C11_VerdictWellFormed ==
    \A p \in Predictors :
        Predicted(p) =>
            /\ ~predLoc[p].raised
            /\ predLoc[p].verdict.is_anomaly \in BOOLEAN
            /\ predLoc[p].verdict.confidence >= 0
            /\ predLoc[p].verdict.confidence <= 100
            /\ predLoc[p].verdict.severity \in Severities \cup {None}
            /\ predLoc[p].verdict.is_anomaly <=> predLoc[p].verdict.anomaly_type # None
            /\ predLoc[p].verdict.is_anomaly <=> predLoc[p].verdict.severity # None

\* the scorer labelled a cold temperature anomalous with a raw score below -1
C11_Witness ==
    \E p \in Predictors :
        /\ Predicted(p)
        /\ predLoc[p].route = "scorer"
        /\ predLoc[p].reading = [sensor_type |-> "temperature", value |-> 5]
        /\ predLoc[p].verdict.is_anomaly
        /\ predLoc[p].verdict.anomaly_score < -100
        /\ predLoc[p].verdict.confidence = 100
        /\ predLoc[p].verdict.severity = "medium"

\* the decision table of the rule classifier as it is specified:
\* <<anomaly_type, severity>>, both None for a reading that breaches nothing
DecisionTable(sensor_type, value) ==
    LET critical_low == CASE sensor_type = "moisture" -> 35
                          [] sensor_type = "temperature" -> 10
                          [] sensor_type = "humidity" -> 30
        critical_high == CASE sensor_type = "moisture" -> 85
                           [] sensor_type = "temperature" -> 35
                           [] sensor_type = "humidity" -> 85
    IN  IF value < critical_low
        THEN CASE sensor_type = "moisture" -> <<"irrigation_failure", "high">>
               [] sensor_type = "temperature" -> <<"cold_stress", "medium">>
               [] sensor_type = "humidity" -> <<"dry_stress", "medium">>
        ELSE IF value > critical_high
        THEN CASE sensor_type = "temperature" -> <<"heat_stress", "high">>
               [] sensor_type = "humidity" -> <<"excess_moisture", "medium">>
               [] sensor_type = "moisture" -> <<"sensor_malfunction", "low">>
        ELSE <<None, None>>

FallbackRoutes == {"untrained", "rule_based"} \cup ExceptRoutes

\* C12: the rule-based fallback gives, for every sensor type and value, the
\* type and severity of the decision table, and not anomalous for a value
\* that breaches no critical threshold.
C12_FallbackDecisionTable ==
    \A p \in Predictors :
        ( /\ pcP[p] = "done"
          /\ predLoc[p].route \in FallbackRoutes
          /\ predLoc[p].reading.sensor_type \in SensorTypes ) =>
            LET r == predLoc[p].reading
                v == predLoc[p].verdict
                row == DecisionTable(r.sensor_type, r.value)
            IN  /\ v.is_anomaly <=> row[1] # None
                /\ v.anomaly_type = row[1]
                /\ v.severity = row[2]

\* the types of the fallback alone, without the severities
C12_FallbackTypes ==
    \A p \in Predictors :
        ( /\ pcP[p] = "done"
          /\ predLoc[p].route \in FallbackRoutes
          /\ predLoc[p].reading.sensor_type \in SensorTypes ) =>
            LET r == predLoc[p].reading
                v == predLoc[p].verdict
                row == DecisionTable(r.sensor_type, r.value)
            IN  /\ v.is_anomaly <=> row[1] # None
                /\ v.anomaly_type = row[1]

\* C13: when the scorer labels a valid reading anomalous, type and severity
\* follow the decision order with strict comparisons: below critical_low,
\* then above critical_high, and sensor_anomaly/low when no threshold is
\* breached, a value equal to a threshold included.
C13_ScorerClassification ==
    \A p \in Predictors :
        Predicted(p) /\ predLoc[p].route = "scorer" /\ predLoc[p].verdict.is_anomaly =>
            LET r == predLoc[p].reading
                v == predLoc[p].verdict
                row == DecisionTable(r.sensor_type, r.value)
            IN  /\ InPhysicalBounds(r)
                /\ <<v.anomaly_type, v.severity>> =
                       IF row[1] = None THEN <<"sensor_anomaly", "low">> ELSE row

\* the scorer labelled a moisture reading equal to critical_low anomalous
C13_Witness ==
    \E p \in Predictors :
        /\ Predicted(p)
        /\ predLoc[p].route = "scorer"
        /\ predLoc[p].reading = [sensor_type |-> "moisture", value |-> 35]
        /\ predLoc[p].verdict.is_anomaly
        /\ predLoc[p].verdict.anomaly_type = "sensor_anomaly"
        /\ predLoc[p].verdict.severity = "low"

\* elapsed simulation time t (minutes) has reached the start offset of s
StartReached(s, t) == t * 100 >= s.start_hour * 60

\* update() has run, and the i-th scenario was pending when it last began
TickedPending(i) ==
    /\ lastUpdate.at >= 0
    /\ ~lastUpdate.before[i].is_active
    /\ lastUpdate.before[i].start_time = NoneObj

\* update() has run, and the i-th scenario was active when it last began
TickedActive(i) == lastUpdate.at >= 0 /\ lastUpdate.before[i].is_active

\* C14: expired is terminal: a scenario that was active and was deactivated
\* by update() because its duration had elapsed is not active after any
\* later update().
C14_ExpiredIsTerminal ==
    \A i \in DOMAIN scenarios : i \in expired => ~scenarios[i].is_active

\* C15: over the update() ticks a pending scenario is not active after a
\* tick with elapsed time below its start offset, and the first tick with
\* elapsed time at or past the offset activates it, at the time of that tick.
C15_PendingActivation ==
    \A i \in DOMAIN scenarios :
        TickedPending(i) =>
            IF StartReached(scenarios[i], lastUpdate.at)
            THEN /\ scenarios[i].is_active
                 /\ scenarios[i].start_time = lastUpdate.at
            ELSE /\ ~scenarios[i].is_active
                 /\ scenarios[i].start_time = NoneObj

\* a tick exactly at the start offset found the scenario pending and activated it
C15_Witness ==
    \E i \in DOMAIN scenarios :
        /\ TickedPending(i)
        /\ lastUpdate.at * 100 = scenarios[i].start_hour * 60
        /\ scenarios[i].is_active
        /\ scenarios[i].start_time = lastUpdate.at

\* C16: an update() tick deactivates an active scenario when the time since
\* its activation is at least duration_minutes, and leaves it active when
\* that time is shorter.
C16_ActiveExpiry ==
    \A i \in DOMAIN scenarios :
        TickedActive(i) =>
            LET b == lastUpdate.before[i]
                since == lastUpdate.at - b.start_time
            IN  /\ scenarios[i].start_time = b.start_time
                /\ scenarios[i].is_active <=> since < b.duration_minutes
                /\ ~scenarios[i].is_active => i \in expired

\* a tick exactly duration_minutes after the activation deactivated the scenario
C16_Witness ==
    \E i \in DOMAIN scenarios :
        /\ TickedActive(i)
        /\ lastUpdate.at - lastUpdate.before[i].start_time = scenarios[i].duration_minutes
        /\ ~scenarios[i].is_active
        /\ i \in expired

\* modify_reading has returned from the i-th scenario (0: from the manager)
Modified(i) == lastModify.target = i

\* C17: modify_reading of a scenario that is not active returns the baseline
\* value, for each variant, sensor type and value, and so does
\* AnomalyManager.modify_reading when no registered scenario is active.
C17_InactiveIsIdentity ==
    /\ \A i \in DOMAIN scenarios :
          Modified(i) /\ ~scenarios[i].is_active =>
              lastModify.result = lastModify.normal_value
    /\ ( /\ Modified(0)
         /\ \A i \in DOMAIN scenarios : ~scenarios[i].is_active ) =>
              lastModify.result = lastModify.normal_value

\* an expired drift scenario was given a reading of the sensor it drifts
C17_Witness ==
    \E i \in DOMAIN scenarios :
        /\ Modified(i)
        /\ scenarios[i].kind = "drift"
        /\ i \in expired
        /\ ~scenarios[i].is_active
        /\ lastModify.sensor_type = scenarios[i].affected_sensor
        /\ lastModify.result = lastModify.normal_value

\* the drop as it is specified: target_drop x (1 - e^(-3p)) with
\* p = min(1, elapsed / duration), in hundredths
SpecifiedDrop(target_drop, elapsed, duration) ==
    LET ratio == (elapsed * 10000) \div duration
        p == IF ratio > 10000 THEN 10000 ELSE ratio
    IN  (target_drop * (10000 - NpExp(0 - 3 * p))) \div 10000

\* modify_reading has returned from the i-th scenario, an active SuddenDrop
DropModified(i) ==
    /\ Modified(i)
    /\ scenarios[i].kind = "sudden_drop"
    /\ scenarios[i].is_active

\* C18: an active SuddenDrop returns the baseline for every sensor type but
\* moisture; for moisture it returns max(30, baseline - drop) with the
\* specified drop, which is never below 30; the drop does not decrease as
\* the elapsed time grows and never exceeds target_drop.
C18_SuddenDropModify ==
    \A i \in DOMAIN scenarios :
        DropModified(i) =>
            LET s == scenarios[i]
                elapsed == clock - s.start_time
                drop == SpecifiedDrop(s.target_drop, elapsed, s.duration_minutes)
                floored == IF lastModify.normal_value - drop < 3000 THEN 3000
                           ELSE lastModify.normal_value - drop
            IN  IF lastModify.sensor_type # "moisture"
                THEN lastModify.result = lastModify.normal_value
                ELSE /\ lastModify.result = floored
                     /\ lastModify.result >= 3000
                     /\ drop >= 0
                     /\ drop <= s.target_drop
                     /\ \A earlier \in 0 .. elapsed :
                           /\ SpecifiedDrop(s.target_drop, earlier, s.duration_minutes) <= drop
                           /\ SuddenDrop_modify_reading(s, s.start_time + earlier, "moisture",
                                  lastModify.normal_value) >= lastModify.result

\* a moisture reading of 60 was lowered, without reaching the floor, by a
\* SuddenDrop that had been active for longer than its duration
C18_Witness ==
    \E i \in DOMAIN scenarios :
        /\ DropModified(i)
        /\ lastModify.sensor_type = "moisture"
        /\ lastModify.normal_value = 6000
        /\ clock - scenarios[i].start_time > scenarios[i].duration_minutes
        /\ lastModify.result < 6000
        /\ lastModify.result > 3000

Abs(x) == IF x < 0 THEN 0 - x ELSE x

\* modify_reading has returned, for moisture, from a SuddenDrop with start
\* offset 1 h, duration 120 min and target_drop 15 that had been active for 60 min
HalfwayDropModified(i) ==
    /\ DropModified(i)
    /\ scenarios[i].start_hour = 100
    /\ scenarios[i].duration_minutes = 120
    /\ scenarios[i].target_drop = 1500
    /\ clock - scenarios[i].start_time = 60
    /\ lastModify.sensor_type = "moisture"

\* the value max(30, baseline - drop) in hundredths
FlooredAt30(baseline, drop) ==
    IF baseline - drop < 3000 THEN 3000 ELSE baseline - drop

\* C19 as stated: 60 minutes into the active window of that scenario the
\* drop is 12.66, so the modified moisture is baseline - 12.66, floored at 30.
C19_HalfwayDrop1266 ==
    \A i \in DOMAIN scenarios :
        HalfwayDropModified(i) =>
            Abs(lastModify.result - FlooredAt30(lastModify.normal_value, 1266)) <= 1

\* C19: 60 minutes into the active window of that scenario the drop is
\* 15 x (1 - e^-1.5) = 11.65, so the modified moisture is baseline - 11.65,
\* floored at 30.
C19_HalfwayDrop1165 ==
    \A i \in DOMAIN scenarios :
        HalfwayDropModified(i) =>
            Abs(lastModify.result - FlooredAt30(lastModify.normal_value, 1165)) <= 1

\* a moisture reading of 60 was modified 60 minutes into the active window
C19_Witness ==
    \E i \in DOMAIN scenarios :
        /\ HalfwayDropModified(i)
        /\ lastModify.normal_value = 6000
        /\ lastModify.result > 3000

\* the two extreme ranges of each sensor type, in hundredths
InExtremeRange(sensor_type, value) ==
    \/ /\ sensor_type = "moisture"
       /\ ((value >= 1000 /\ value <= 2500) \/ (value >= 8500 /\ value <= 9500))
    \/ /\ sensor_type = "temperature"
       /\ ((value >= 0 /\ value <= 800) \/ (value >= 3800 /\ value <= 4500))
    \/ /\ sensor_type = "humidity"
       /\ ((value >= 1000 /\ value <= 2000) \/ (value >= 9000 /\ value <= 9800))

\* modify_reading has returned from the i-th scenario, an active Spike
SpikeModified(i) ==
    /\ Modified(i)
    /\ scenarios[i].kind = "spike"
    /\ scenarios[i].is_active

\* C20: an active Spike returns the baseline or a value in one of the two
\* extreme ranges of the sensor type, and the baseline for every sensor type
\* it is not configured for.
C20_SpikeModify ==
    \A i \in DOMAIN scenarios :
        SpikeModified(i) =>
            IF scenarios[i].affected_sensor # "all"
               /\ lastModify.sensor_type # scenarios[i].affected_sensor
            THEN lastModify.result = lastModify.normal_value
            ELSE \/ lastModify.result = lastModify.normal_value
                 \/ InExtremeRange(lastModify.sensor_type, lastModify.result)

\* a Spike configured for all sensor types replaced a humidity reading by a
\* value of the high range
C20_Witness ==
    \E i \in DOMAIN scenarios :
        /\ SpikeModified(i)
        /\ scenarios[i].affected_sensor = "all"
        /\ lastModify.sensor_type = "humidity"
        /\ lastModify.result # lastModify.normal_value
        /\ lastModify.result >= 9000
        /\ lastModify.result <= 9800

\* modify_reading has returned from the i-th scenario, an active Drift
DriftModified(i) ==
    /\ Modified(i)
    /\ scenarios[i].kind = "drift"
    /\ scenarios[i].is_active

\* the drift as it is specified: drift_amount x p with
\* p = min(1, elapsed / duration), in hundredths
SpecifiedDrift(drift_amount, elapsed, duration) ==
    LET ratio == (elapsed * 10000) \div duration
        p == IF ratio > 10000 THEN 10000 ELSE ratio
    IN  (drift_amount * p) \div 10000

\* C21: an active Drift returns baseline + drift_amount x p for direction up
\* and baseline - drift_amount x p for direction down on its named sensor
\* type, the baseline on every other sensor type, and never a value further
\* than drift_amount from the baseline.
C21_DriftModify ==
    \A i \in DOMAIN scenarios :
        DriftModified(i) =>
            LET s == scenarios[i]
                shift == SpecifiedDrift(s.drift_amount, clock - s.start_time,
                                        s.duration_minutes)
            IN  IF lastModify.sensor_type # s.affected_sensor
                THEN lastModify.result = lastModify.normal_value
                ELSE /\ s.drift_direction = "up" =>
                            lastModify.result = lastModify.normal_value + shift
                     /\ s.drift_direction = "down" =>
                            lastModify.result = lastModify.normal_value - shift
                     /\ Abs(lastModify.result - lastModify.normal_value) <= s.drift_amount

\* a downward Drift, active for longer than its duration, lowered a reading
\* of its sensor type by the whole drift_amount
C21_Witness ==
    \E i \in DOMAIN scenarios :
        /\ DriftModified(i)
        /\ scenarios[i].drift_direction = "down"
        /\ lastModify.sensor_type = scenarios[i].affected_sensor
        /\ clock - scenarios[i].start_time > scenarios[i].duration_minutes
        /\ lastModify.result = lastModify.normal_value - scenarios[i].drift_amount

\* the i-th registered scenario applied to value if it is active; value
\* itself if it is not active or not registered
AppliedIfActive(i, value, d) ==
    IF i \in DOMAIN scenarios /\ scenarios[i].is_active
    THEN modify_reading(scenarios[i], clock, lastModify.sensor_type, value, d)
    ELSE value

\* the first two registered scenarios are an active SuddenDrop and an
\* active Drift of moisture, and no other scenario is active
DropThenDriftActive ==
    /\ Len(scenarios) >= 2
    /\ scenarios[1].kind = "sudden_drop" /\ scenarios[1].is_active
    /\ \E j \in DOMAIN scenarios :
          /\ j > 1
          /\ scenarios[j].kind = "drift" /\ scenarios[j].is_active
          /\ scenarios[j].affected_sensor = "moisture"
          /\ \A k \in DOMAIN scenarios : k \notin {1, j} => ~scenarios[k].is_active

TheDrift == CHOOSE j \in DOMAIN scenarios : scenarios[j].kind = "drift"

\* C22: AnomalyManager.modify_reading returns the single value obtained by
\* applying the active scenarios in registration order, each to the output of
\* the one before; with a Drop registered before a Drift, both active on
\* moisture, that is drift(drop(baseline)).
C22_ManagerComposes ==
    Modified(0) =>
        /\ \E d \in Draws :
              lastModify.result =
                  AppliedIfActive(3, AppliedIfActive(2,
                      AppliedIfActive(1, lastModify.normal_value, d), d), d)
        /\ DropThenDriftActive /\ lastModify.sensor_type = "moisture" =>
              lastModify.result =
                  Drift_modify_reading(scenarios[TheDrift], clock, "moisture",
                      SuddenDrop_modify_reading(scenarios[1], clock, "moisture",
                          lastModify.normal_value))

\* a Drop and a Drift, both active on moisture, changed a reading of 40 to a
\* value that neither gives alone, nor the two in the other order
C22_Witness ==
    /\ Modified(0)
    /\ DropThenDriftActive
    /\ lastModify.sensor_type = "moisture"
    /\ lastModify.normal_value = 4000
    /\ lastModify.result #
          SuddenDrop_modify_reading(scenarios[1], clock, "moisture", 4000)
    /\ lastModify.result #
          Drift_modify_reading(scenarios[TheDrift], clock, "moisture", 4000)
    /\ lastModify.result #
          SuddenDrop_modify_reading(scenarios[1], clock, "moisture",
              Drift_modify_reading(scenarios[TheDrift], clock, "moisture", 4000))

\* a call of modify_reading, get_active_scenarios or has_active_anomalies
\* returns in this step
CallReturns == lastModify' # NoModify \/ lastQuery' # NoQuery

\* C27: the state of a scenario is changed only by activate and deactivate:
\* a step in which modify_reading (of a scenario or of the manager),
\* get_active_scenarios or has_active_anomalies returns leaves every scenario
\* as it was, and in any other step a scenario changes only as activate,
\* deactivate, or the one after the other change it.
C27_OnlyTransitionsMutate ==
    [][ /\ CallReturns => scenarios' = scenarios
        /\ DOMAIN scenarios' = DOMAIN scenarios
        /\ \A i \in DOMAIN scenarios :
              scenarios'[i] \in {scenarios[i],
                                 activate(scenarios[i], clock),
                                 deactivate(scenarios[i]),
                                 deactivate(activate(scenarios[i], clock))}
      ]_vars

\* an active scenario changed a reading and is still active, with the
\* activation instant update() gave it
C27_Witness ==
    \E i \in DOMAIN scenarios :
        /\ Modified(i)
        /\ lastModify.result # lastModify.normal_value
        /\ scenarios[i].is_active
        /\ scenarios[i].start_time = lastUpdate.before[i].start_time
        /\ lastUpdate.before[i].is_active

\* C29: an active SuddenDrop never raises a reading: for every baseline
\* value, values below 30 included, and every elapsed time, the value it
\* returns is at most the value it was given.
C29_DropNeverRaises ==
    \A i \in DOMAIN scenarios :
        DropModified(i) => lastModify.result <= lastModify.normal_value

\* C28: in every reachable state of the detector the model and the scaler
\* are both held or both absent, so that is_trained() is equivalent to the
\* test "self.model is None" of predict.
C28_BothOrNeither ==
    /\ IsNone(model) <=> IsNone(scaler)
    /\ is_trained <=> ~IsNone(model)

\* the reading breaches a critical threshold of its sensor type
BreachesThreshold(r) ==
    /\ r.sensor_type \in SensorTypes
    /\ DecisionTable(r.sensor_type, r.value)[1] # None

\* C30: on the trained path is_anomaly is the label of the scorer alone: a
\* valid reading labelled normal is returned as not anomalous, without type
\* or severity, whatever its value; on the untrained path a reading that
\* breaches a critical threshold is reported as an anomaly.
C30_LabelDecides ==
    \A p \in Predictors :
        Predicted(p) =>
            /\ predLoc[p].route = "scorer" =>
                  /\ predLoc[p].label \in {-1, 1}
                  /\ predLoc[p].verdict.is_anomaly <=> predLoc[p].label = -1
                  /\ predLoc[p].label = 1 =>
                        /\ predLoc[p].verdict.anomaly_type = None
                        /\ predLoc[p].verdict.severity = None
            /\ predLoc[p].route = "untrained" /\ BreachesThreshold(predLoc[p].reading) =>
                  predLoc[p].verdict.is_anomaly

\* the scorer labelled a moisture reading of 20, below critical_low, normal
C30_Witness ==
    \E p \in Predictors :
        /\ Predicted(p)
        /\ predLoc[p].route = "scorer"
        /\ predLoc[p].reading = [sensor_type |-> "moisture", value |-> 20]
        /\ predLoc[p].label = 1
        /\ ~predLoc[p].verdict.is_anomaly
        /\ predLoc[p].verdict.anomaly_type = None
        /\ _rule_based_detection(predLoc[p].reading).is_anomaly

\* detect_anomaly_on_save has returned from a call for a new reading
Handled == signal.pc = "done" /\ signal.created

\* C25: every newly created reading gets a verdict: when the handler has
\* returned from a call for a new reading, predict has given it a result,
\* in every state of the model, the rule-based one when the detector is not
\* trained, and no exception has left the handler.
C25_EveryCreatedReadingGetsVerdict ==
    Handled =>
        /\ signal.has_result
        /\ ~signal.trained /\ validate_sensor_reading(signal.reading).is_valid =>
              signal.result = _rule_based_detection(signal.reading)
        /\ ~signal.raised

\* C26: the sink is called once per detected anomaly: a call of the handler
\* for a new reading calls AnomalyEvent.objects.create exactly once when
\* the result of predict has is_anomaly and not at all otherwise, a call
\* for an update never calls it; the call adds exactly one row to the
\* table when the sink is called and does not fail and no row otherwise;
\* and no exception, of predict or of the sink, leaves the handler.
C26_SinkOncePerAnomaly ==
    signal.pc = "done" =>
        /\ signal.sink_calls = (IF signal.created /\ signal.has_result
                                   /\ signal.result.is_anomaly THEN 1 ELSE 0)
        /\ signal.events = (IF signal.sink_calls = 1 /\ ~signal.sink_failed
                            THEN 1 ELSE 0)
        /\ signal.sink_failed => signal.sink_calls = 1
        /\ ~signal.created => signal.sink_calls = 0 /\ signal.events = 0
        /\ ~signal.raised

\* a new anomalous reading was recorded once, and the table holds the row
C26_Witness ==
    /\ Handled
    /\ signal.has_result
    /\ signal.result.is_anomaly
    /\ signal.sink_calls = 1
    /\ ~signal.sink_failed
    /\ signal.events = 1
    /\ anomalyEvents >= 1

\* the sink failed on an anomalous reading, once because the plot of the
\* reading had been deleted: no row, and nothing raised
C26_SinkFailureSeen ==
    /\ Handled
    /\ signal.result.is_anomaly
    /\ signal.sink_failed
    /\ ~PlotFound(signal.plot_id)
    /\ signal.events = 0

\* the data the reading of the last single-mode call trails: the rows of
\* the last 24 hours before the call, to which the reading belongs or which
\* it follows
TrailingData ==
    LET recent == RecentReadings(rows, single.at)
    IN  IF recent # <<>> /\ recent[Len(recent)] = single.reading
        THEN recent
        ELSE Append(recent, single.reading)

\* C23: batch mode and single mode agree: the feature vector
\* prepare_single_reading returns for a reading equals the row
\* prepare_training_data computes for that reading over the same trailing
\* data, also when the reading is already in the record store at the time
\* of the single-mode call.
C23_BatchSingleAgree ==
    single.called =>
        /\ ~single.raised
        /\ single.X = prepare_training_data(TrailingData)[Len(TrailingData)]

\* the same agreement for the calls made when the reading is older than
\* the 24 hours of the query
C23_LateAgree ==
    single.called /\ single.reading.timestamp < single.at - 24 * 3600 =>
        /\ ~single.raised
        /\ single.X = prepare_training_data(TrailingData)[Len(TrailingData)]

NoNaN(x) == \A f \in DOMAIN x : x[f] # NaN

\* C24: no undefined value reaches the scorer: every feature vector that
\* batch mode or single mode returns holds no NaN; rolling_std_6h is 0 for
\* a window of one sample and value_change_1h is 0 for the first two
\* readings of the group.
C24_NoUndefinedReachesScorer ==
    /\ batch.called /\ ~batch.raised =>
          \A i \in DOMAIN batch.X :
              /\ NoNaN(batch.X[i])
              /\ i = 1 => batch.X[i].rolling_std_6h = 0
              /\ i <= 2 => batch.X[i].value_change_1h = 0
    /\ single.called /\ ~single.raised =>
          /\ NoNaN(single.X)
          /\ Len(SingleFrame(rows, single.reading, single.at)) = 1 =>
                single.X.rolling_std_6h = 0
          /\ Len(SingleFrame(rows, single.reading, single.at)) <= 2 =>
                single.X.value_change_1h = 0

\* batch mode ran on more rows than the rolling window holds: the first
\* row has a window of one sample, the first two rows have no row two
\* places before them, and no row has a daily mean
C24_Witness ==
    /\ batch.called
    /\ Len(batch.X) > RollingWindow
    /\ batch.X[1].rolling_std_6h = 0
    /\ batch.X[2].value_change_1h = 0
    /\ batch.X[3].value_change_1h # 0
    /\ batch.X[Len(batch.X)].rolling_std_6h > 0
    /\ batch.X[Len(batch.X)].deviation_from_daily_mean = 0

====
